---- MODULE Spec2Model ----
(***************************************************************************)
(* A model of mint (src/mint.hpp): the markup parser mint::internal::Parser *)
(* driven by mint::mint(), the functions escape() and escapeAnsi(), and     *)
(* terminalSupport() called by the threads of a process.                   *)
(*                                                                         *)
(* A character is a one-character string ("ESC" spells the escape          *)
(* character, code 27); a C++ string or a character range is a sequence of *)
(* characters.  A pointer into the range [begin, end) is its offset from   *)
(* 'begin': '_at' ranges over 0..Len(input) and '*_at' is input[at + 1].   *)
(* A thrown std::runtime_error is the tuple of the pieces of its message,   *)
(* with the message's backquotes written as single quotes.                 *)
(***************************************************************************)
EXTENDS Integers, Sequences, FiniteSets, TLC

VARIABLES
    when,       \* the 'when' argument of mint()
    support,    \* what terminalSupport() returns in this process
    input,      \* the characters of [begin, end)
    parser,     \* the Parser object: its members, and where its _parse() is
    result,     \* what mint() returned to its caller, NoResult before that
    text,       \* a string the caller has
    calls,      \* the calls the caller made with it: function, argument, result
    environment,    \* standard output and the environment variables, now
    changes,        \* how many times the environment changed
    initFlag,       \* the std::once_flag of terminalSupport()
    staticSupport,  \* the static variable 'support' of terminalSupport()
    probed,         \* what the calls of the probe met
    probeRuns,      \* how many times the body of the probe was entered
    threads         \* the threads: where each is in terminalSupport()

helperVars == <<text, calls>>

probeVars == <<environment, changes, initFlag, staticSupport, probed, probeRuns, threads>>

vars == <<when, support, input, parser, result, helperVars, probeVars>>

----------------------------------------------------------------------------
(* Bounds of the checked inputs *)

\* Longest input made of nesting tokens
MaxNest == 6

\* Longest input made of style tokens
MaxStyle == 3

\* Longest input made of single characters
MaxLen == 4

\* Longest text given to escape()
MaxText == 4

\* Longest input of mint() made of the tokens of a text with escape codes
MaxMarkup == 4

\* Longest string given to escapeAnsi() alone
MaxRaw == 6

\* Threads which call terminalSupport()
MaxThreads == 2

\* Calls of terminalSupport() by one thread
MaxCalls == 2

\* Changes of the environment during the calls
MaxChanges == 1

\* Tokens between the '[' of an opening tag and the end of the input
MaxTag == 4

\* Tokens of the inputs of the parses followed to their end
MaxRun == 2

----------------------------------------------------------------------------
(* Characters *)

ESC == "ESC"

\* The horizontal tab
TAB == "\t"

Digits == <<"0", "1", "2", "3", "4", "5", "6", "7", "8", "9">>

LowerHex == <<"a", "b", "c", "d", "e", "f">>

UpperHex == <<"A", "B", "C", "D", "E", "F">>

InSeq(s, c) == \E i \in 1..Len(s) : s[i] = c

IndexOf(s, c) == CHOOSE i \in 1..Len(s) : s[i] = c

\* The character code of 'c', for the characters whose code the program
\* computes with: the others are only compared for equality, and get a code
\* outside every range the program tests.
CodeOf(c) ==
    IF InSeq(Digits, c) THEN 48 + IndexOf(Digits, c) - 1
    ELSE IF InSeq(UpperHex, c) THEN 65 + IndexOf(UpperHex, c) - 1
    ELSE IF InSeq(LowerHex, c) THEN 97 + IndexOf(LowerHex, c) - 1
    ELSE 0

Chars ==
    {ESC, TAB, " ", "!", "-", "_", "'", "^", "*", ":", "#", "[", "]", "/", "\\", ";",
     "g", "k", "m", "r", "w", "y", "X"}
    \cup {Digits[i] : i \in 1..10} \cup {LowerHex[i] : i \in 1..6}
    \cup {UpperHex[i] : i \in 1..6}

Ord == [c \in Chars |-> CodeOf(c)]

\* operator<<(std::ostream&, int) for a value >= 0: the decimal digits
RECURSIVE Dec(_)
Dec(n) ==
    IF n < 10 THEN <<Digits[n + 1]>>
    ELSE Dec(n \div 10) \o <<Digits[(n % 10) + 1]>>

----------------------------------------------------------------------------
(* StackFrame and Stack *)

\* The value of a std::uint8_t member which has no initializer and was never
\* assigned: no path of the program reads it (see NoIndeterminateRead).
Indeterminate == -1

IndeterminateColor == [r |-> Indeterminate, g |-> Indeterminate, b |-> Indeterminate]

\* 'StackFrame frame;': the flags take their default member initializers,
\* the other members are left as they are.
UninitFrame ==
    [hasBold |-> FALSE, hasDim |-> FALSE, hasUnderline |-> FALSE,
     hasItalic |-> FALSE, hasReverse |-> FALSE, hasBright |-> FALSE,
     hasFgColor |-> FALSE, fgColorCodeOffset |-> Indeterminate,
     hasBgColor |-> FALSE, bgColorCodeOffset |-> Indeterminate,
     hasFgTrueColor |-> FALSE, fgTrueColor |-> IndeterminateColor,
     hasBgTrueColor |-> FALSE, bgTrueColor |-> IndeterminateColor]

\* 'StackFrame {}': value-initialized, so the other members are zero.
DefaultFrame ==
    [UninitFrame EXCEPT !.fgColorCodeOffset = 0, !.bgColorCodeOffset = 0,
                        !.fgTrueColor = [r |-> 0, g |-> 0, b |-> 0],
                        !.bgTrueColor = [r |-> 0, g |-> 0, b |-> 0]]

\* A variant of setFgColor: the basic colour replaces the true colour
setFgColorOnly(frame, colorCodeOffset) ==
    [frame EXCEPT !.hasFgColor = TRUE, !.fgColorCodeOffset = colorCodeOffset,
                  !.hasFgTrueColor = FALSE]

setFgColor(frame, colorCodeOffset) ==
    [frame EXCEPT !.hasFgColor = TRUE, !.fgColorCodeOffset = colorCodeOffset]

setBgColor(frame, colorCodeOffset) ==
    [frame EXCEPT !.hasBgColor = TRUE, !.bgColorCodeOffset = colorCodeOffset]

setFgTrueColor(frame, color) ==
    [frame EXCEPT !.hasFgTrueColor = TRUE, !.fgTrueColor = color]

setBgTrueColor(frame, color) ==
    [frame EXCEPT !.hasBgTrueColor = TRUE, !.bgTrueColor = color]

\* std::array<StackFrame, 5>::size()
StackSize == 5

----------------------------------------------------------------------------
(* Errors *)

NoError == <<>>

Throw(p, what) == [p EXCEPT !.pc = "thrown", !.error = what]

----------------------------------------------------------------------------
(* Parser::_appendSgrCode *)

BasicFgCode(frame) ==
    (IF frame.hasBright THEN 90 ELSE 30) + frame.fgColorCodeOffset

\* A variant of BasicBgCode: the bright modifier applied to the background
BasicBgCodeBright(frame) ==
    (IF frame.hasBright THEN 100 ELSE 40) + frame.bgColorCodeOffset

BasicBgCode(frame) == 40 + frame.bgColorCodeOffset

TrueColorCode(color) ==
    Dec(color.r) \o <<";">> \o Dec(color.g) \o <<";">> \o Dec(color.b)

\* A variant of FgSgr: the true colour emitted whatever the support
FgSgrAlwaysTrue(hasTrueColorSupport, frame) ==
    IF frame.hasFgTrueColor
    THEN <<";", "3", "8", ";", "2", ";">> \o TrueColorCode(frame.fgTrueColor)
    ELSE IF frame.hasFgColor THEN <<";">> \o Dec(BasicFgCode(frame))
    ELSE <<>>

FgSgr(hasTrueColorSupport, frame) ==
    IF hasTrueColorSupport /\ frame.hasFgTrueColor
    THEN <<";", "3", "8", ";", "2", ";">> \o TrueColorCode(frame.fgTrueColor)
    ELSE IF frame.hasFgColor THEN <<";">> \o Dec(BasicFgCode(frame))
    ELSE <<>>

BgSgr(hasTrueColorSupport, frame) ==
    IF hasTrueColorSupport /\ frame.hasBgTrueColor
    THEN <<";", "4", "8", ";", "2", ";">> \o TrueColorCode(frame.bgTrueColor)
    ELSE IF frame.hasBgColor THEN <<";">> \o Dec(BasicBgCode(frame))
    ELSE <<>>

\* What _appendSgrCode(frame) writes to _os
SgrCode(emitSgrCodes, hasTrueColorSupport, frame) ==
    IF ~emitSgrCodes THEN <<>>
    ELSE <<ESC, "[", "0">>
         \o (IF frame.hasBold THEN <<";", "1">> ELSE <<>>)
         \o (IF frame.hasDim THEN <<";", "2">> ELSE <<>>)
         \o (IF frame.hasItalic THEN <<";", "3">> ELSE <<>>)
         \o (IF frame.hasUnderline THEN <<";", "4">> ELSE <<>>)
         \o (IF frame.hasReverse THEN <<";", "7">> ELSE <<>>)
         \o FgSgr(hasTrueColorSupport, frame)
         \o BgSgr(hasTrueColorSupport, frame)
         \o <<"m">>

\* _appendSgrCode(frame) as called for the tag 'op' ("push", or "pop" of
\* 'n' levels): _os grows by the code, and the history records the tag, the
\* code and where in _os it went.
Emitted(p, code, op, n) ==
    [p EXCEPT !.os = @ \o code,
              !.events = Append(@, [op |-> op, n |-> n, pos |-> Len(p.os),
                                    sgr |-> code, depth |-> p.stackLen])]

appendSgrCode(p, frame, op, n) ==
    Emitted(p, SgrCode(p.emitSgrCodes, p.hasTrueColorSupport, frame), op, n)

----------------------------------------------------------------------------
(* Parser::_hexDigitValue, _tryParseHexColor, _tryParseBasicColor *)

InRange(o, lo, hi) == o >= lo /\ o <= hi

IsHexDigit(c) ==
    \/ InRange(Ord[c], Ord["0"], Ord["9"])
    \/ InRange(Ord[c], Ord["a"], Ord["f"])
    \/ InRange(Ord[c], Ord["A"], Ord["F"])

\* For a hex digit; the other characters throw (see tryParseHexColor)
hexDigitValue(c) ==
    IF InRange(Ord[c], Ord["0"], Ord["9"]) THEN (Ord[c] - Ord["0"]) % 256
    ELSE IF InRange(Ord[c], Ord["a"], Ord["f"]) THEN (Ord[c] - Ord["a"] + 10) % 256
    ELSE (Ord[c] - Ord["A"] + 10) % 256

\* A variant of HexByte: the digits the other way round
HexByteSwapped(hi, lo) == ((hexDigitValue(lo) * 16) + hexDigitValue(hi)) % 256

\* static_cast<std::uint8_t>((hi << 4) | lo), for hi and lo below 16
HexByte(hi, lo) == ((hexDigitValue(hi) * 16) + hexDigitValue(lo)) % 256

\* [err, at, color]: the six characters from 'at'
tryParseHexColor(in, at) ==
    IF Len(in) - at < 6
    THEN [err |-> <<"Expecting six hex digits for true color">>, at |-> at,
          color |-> IndeterminateColor]
    ELSE IF \E i \in 1..6 : ~IsHexDigit(in[at + i])
    THEN [err |-> <<"Invalid hex digit">>, at |-> at, color |-> IndeterminateColor]
    ELSE [err |-> NoError, at |-> at + 6,
          color |-> [r |-> HexByte(in[at + 1], in[at + 2]),
                     g |-> HexByte(in[at + 3], in[at + 4]),
                     b |-> HexByte(in[at + 5], in[at + 6])]]

ColorLetters == <<"k", "r", "g", "y", "b", "m", "c", "w">>

\* [err, at, offset]: the colour letter at 'at'
tryParseBasicColor(in, at) ==
    IF at = Len(in)
    THEN [err |-> <<"Expecting color letter">>, at |-> at, offset |-> Indeterminate]
    ELSE LET c == in[at + 1]
         IN  IF c = "d" THEN [err |-> NoError, at |-> at + 1, offset |-> 9]
             ELSE IF InSeq(ColorLetters, c)
             THEN [err |-> NoError, at |-> at + 1, offset |-> IndexOf(ColorLetters, c) - 1]
             ELSE [err |-> <<"Unknown color letter '", c, "'">>, at |-> at + 1,
                   offset |-> Indeterminate]

----------------------------------------------------------------------------
(* Parser::_parseOpenTag *)

Parsed(err, at, frame) == [err |-> err, at |-> at, frame |-> frame]

\* frame.setFgTrueColor(h) or frame.setBgTrueColor(h) with the result 'h' of
\* _tryParseHexColor(), unless it threw
SetTrueColor(frame, h, isBg) ==
    Parsed(h.err, h.at,
           IF h.err # NoError THEN frame
           ELSE IF isBg THEN setBgTrueColor(frame, h.color)
           ELSE setFgTrueColor(frame, h.color))

\* frame.setFgColor(b) or frame.setBgColor(b) with the result 'b' of
\* _tryParseBasicColor(), unless it threw
SetBasicColor(frame, b, isBg) ==
    Parsed(b.err, b.at,
           IF b.err # NoError THEN frame
           ELSE IF isBg THEN setBgColor(frame, b.offset)
           ELSE setFgColor(frame, b.offset))

\* A variant of OpenTagSpecifier: a space is read as the other characters
OpenTagSpecifierNoSkip(in, at, frame, c) ==
    IF c = "!" THEN Parsed(NoError, at + 1, [frame EXCEPT !.hasBold = TRUE])
    ELSE IF c = "-" THEN Parsed(NoError, at + 1, [frame EXCEPT !.hasDim = TRUE])
    ELSE IF c = "_" THEN Parsed(NoError, at + 1, [frame EXCEPT !.hasUnderline = TRUE])
    ELSE IF c = "'" THEN Parsed(NoError, at + 1, [frame EXCEPT !.hasItalic = TRUE])
    ELSE IF c = "^" THEN Parsed(NoError, at + 1, [frame EXCEPT !.hasReverse = TRUE])
    ELSE IF c = "*" THEN Parsed(NoError, at + 1, [frame EXCEPT !.hasBright = TRUE])
    ELSE IF c = ":" THEN
        IF at + 1 # Len(in) /\ in[at + 2] = "#"
        THEN SetTrueColor(frame, tryParseHexColor(in, at + 2), TRUE)
        ELSE SetBasicColor(frame, tryParseBasicColor(in, at + 1), TRUE)
    ELSE IF c = "#" THEN SetTrueColor(frame, tryParseHexColor(in, at + 1), FALSE)
    ELSE SetBasicColor(frame, tryParseBasicColor(in, at), FALSE)

\* One iteration of the loop over the tag's content, for the character 'c'
\* at 'at' (not ']'): [err, at, frame]
OpenTagSpecifier(in, at, frame, c) ==
    IF c = " " THEN Parsed(NoError, at + 1, frame)
    ELSE IF c = "!" THEN Parsed(NoError, at + 1, [frame EXCEPT !.hasBold = TRUE])
    ELSE IF c = "-" THEN Parsed(NoError, at + 1, [frame EXCEPT !.hasDim = TRUE])
    ELSE IF c = "_" THEN Parsed(NoError, at + 1, [frame EXCEPT !.hasUnderline = TRUE])
    ELSE IF c = "'" THEN Parsed(NoError, at + 1, [frame EXCEPT !.hasItalic = TRUE])
    ELSE IF c = "^" THEN Parsed(NoError, at + 1, [frame EXCEPT !.hasReverse = TRUE])
    ELSE IF c = "*" THEN Parsed(NoError, at + 1, [frame EXCEPT !.hasBright = TRUE])
    ELSE IF c = ":" THEN
        IF at + 1 # Len(in) /\ in[at + 2] = "#"
        THEN SetTrueColor(frame, tryParseHexColor(in, at + 2), TRUE)
        ELSE SetBasicColor(frame, tryParseBasicColor(in, at + 1), TRUE)
    ELSE IF c = "#" THEN SetTrueColor(frame, tryParseHexColor(in, at + 1), FALSE)
    ELSE SetBasicColor(frame, tryParseBasicColor(in, at), FALSE)

\* The loop over the tag's content, from 'at' with 'frame' so far:
\* [err, at, frame] when the loop ends or throws.  OpenTagNext continues
\* after the iteration whose outcome is 's'.
RECURSIVE OpenTagContent(_, _, _)
RECURSIVE OpenTagNext(_, _)
OpenTagContent(in, at, frame) ==
    IF at = Len(in) \/ in[at + 1] = "]" THEN Parsed(NoError, at, frame)
    ELSE OpenTagNext(in, OpenTagSpecifier(in, at, frame, in[at + 1]))

OpenTagNext(in, s) ==
    IF s.err # NoError THEN s ELSE OpenTagContent(in, s.at, s.frame)

IsEmptyFrame(frame) ==
    /\ ~frame.hasBold /\ ~frame.hasDim /\ ~frame.hasUnderline /\ ~frame.hasItalic
    /\ ~frame.hasReverse /\ ~frame.hasBright /\ ~frame.hasFgColor /\ ~frame.hasBgColor
    /\ ~frame.hasFgTrueColor /\ ~frame.hasBgTrueColor

\* A variant of OpenTagEnd: a tag that sets nothing is accepted
OpenTagEndAnyFrame(in, t) ==
    IF t.err # NoError THEN t
    ELSE IF t.at = Len(in) \/ in[t.at + 1] # "]"
    THEN Parsed(<<"Expecting ']' to terminate the opening tag">>, t.at, t.frame)
    ELSE Parsed(NoError, t.at + 1, t.frame)

\* What follows the loop, which ended or threw as 't'
OpenTagEnd(in, t) ==
    IF t.err # NoError THEN t
    ELSE IF t.at = Len(in) \/ in[t.at + 1] # "]"
    THEN Parsed(<<"Expecting ']' to terminate the opening tag">>, t.at, t.frame)
    ELSE IF IsEmptyFrame(t.frame)
    THEN Parsed(<<"Empty opening tag">>, t.at, t.frame)
    ELSE Parsed(NoError, t.at + 1, t.frame)

\* [err, at, frame]: the opening tag whose '[' is at 'at'
parseOpenTag(in, at) == OpenTagEnd(in, OpenTagContent(in, at + 1, UninitFrame))

----------------------------------------------------------------------------
(* Parser::_stackPush, _stackPop, _stackBack *)

\* A variant of stackPush: the capacity check off by one
stackPushOffByOne(p, frame) ==
    IF p.stackLen > StackSize
    THEN Throw(p, <<"Maximum nesting depth exceeded">>)
    ELSE [p EXCEPT !.stack[p.stackLen] = frame, !.stackLen = @ + 1]

stackPush(p, frame) ==
    IF p.stackLen >= StackSize
    THEN Throw(p, <<"Maximum nesting depth exceeded">>)
    ELSE [p EXCEPT !.stack[p.stackLen] = frame, !.stackLen = @ + 1]

\* A variant of stackPop: the frame which becomes the top is reset
stackPopResets(p) ==
    [p EXCEPT !.stackLen = @ - 1, !.stack[p.stackLen - 2] = DefaultFrame]

stackPop(p) == [p EXCEPT !.stackLen = @ - 1]

stackBack(p) == p.stack[p.stackLen - 1]

----------------------------------------------------------------------------
(* Parser::_parse *)

\* A variant of InheritFlags: the tag's own flags only
InheritFlagsNone(frame, back) == frame

InheritFlags(frame, back) ==
    [frame EXCEPT
       !.hasBold = IF ~@ /\ back.hasBold THEN TRUE ELSE @,
       !.hasDim = IF ~@ /\ back.hasDim THEN TRUE ELSE @,
       !.hasUnderline = IF ~@ /\ back.hasUnderline THEN TRUE ELSE @,
       !.hasItalic = IF ~@ /\ back.hasItalic THEN TRUE ELSE @,
       !.hasReverse = IF ~@ /\ back.hasReverse THEN TRUE ELSE @,
       !.hasBright = IF ~@ /\ back.hasBright THEN TRUE ELSE @]

\* A variant of InheritFgColor: inherited only by a tag without any
\* foreground colour
InheritFgColorPerChannel(frame, back) ==
    IF ~frame.hasFgColor /\ ~frame.hasFgTrueColor /\ back.hasFgColor
    THEN setFgColor(frame, back.fgColorCodeOffset) ELSE frame

InheritFgColor(frame, back) ==
    IF ~frame.hasFgColor /\ back.hasFgColor
    THEN setFgColor(frame, back.fgColorCodeOffset) ELSE frame

InheritBgColor(frame, back) ==
    IF ~frame.hasBgColor /\ back.hasBgColor
    THEN setBgColor(frame, back.bgColorCodeOffset) ELSE frame

InheritFgTrueColor(frame, back) ==
    IF ~frame.hasFgTrueColor /\ back.hasFgTrueColor
    THEN setFgTrueColor(frame, back.fgTrueColor) ELSE frame

InheritBgTrueColor(frame, back) ==
    IF ~frame.hasBgTrueColor /\ back.hasBgTrueColor
    THEN setBgTrueColor(frame, back.bgTrueColor) ELSE frame

\* The frame of an opening tag after it inherited from 'back', the top of
\* the stack
Inherit(frame, back) ==
    InheritBgTrueColor(
        InheritFgTrueColor(
            InheritBgColor(
                InheritFgColor(InheritFlags(frame, back), back),
                back),
            back),
        back)

\* Once the first statement of _parse() has run as 'q'
Started(q) == IF q.pc = "thrown" THEN q ELSE [q EXCEPT !.pc = "scan"]

\* this->_stackPush(StackFrame {}), the first statement of _parse()
PushDefaultStep(p) == Started(stackPush(p, DefaultFrame))

\* A variant of EscapeStep: any character may follow the backslash
EscapeStepAny(in, p) ==
    IF p.at + 1 = Len(in)
    THEN Throw([p EXCEPT !.at = @ + 1], <<"Incomplete escape sequence at end of string">>)
    ELSE [p EXCEPT !.os = Append(@, in[p.at + 2]), !.at = @ + 2]

\* '\' at _at
EscapeStep(in, p) ==
    IF p.at + 1 = Len(in)
    THEN Throw([p EXCEPT !.at = @ + 1], <<"Incomplete escape sequence at end of string">>)
    ELSE IF in[p.at + 2] = "\\" \/ in[p.at + 2] = "["
    THEN [p EXCEPT !.os = Append(@, in[p.at + 2]), !.at = @ + 2]
    ELSE Throw([p EXCEPT !.at = @ + 1], <<"Invalid escape sequence">>)

\* The offset of the first character from 'slashAt' on which is not '/'
RECURSIVE SlashRunEnd(_, _)
SlashRunEnd(in, slashAt) ==
    IF slashAt < Len(in) /\ in[slashAt + 1] = "/"
    THEN SlashRunEnd(in, slashAt + 1) ELSE slashAt

\* A variant of PopTimes: the loop of pops one iteration short
RECURSIVE PopTimesShort(_, _)
PopTimesShort(p, n) == IF n <= 1 THEN p ELSE PopTimesShort(stackPop(p), n - 1)

RECURSIVE PopTimes(_, _)
PopTimes(p, n) == IF n = 0 THEN p ELSE PopTimes(stackPop(p), n - 1)

IsClosingTag(in, at) == at + 1 < Len(in) /\ in[at + 2] = "/"

\* A variant of CloseTagRun: a code is written after each pop
RECURSIVE PopEmitTimes(_, _)
PopEmitTimes(p, n) ==
    IF n = 0 THEN p
    ELSE PopEmitTimes(appendSgrCode(stackPop(p), stackBack(stackPop(p)), "pop", 1), n - 1)

CloseTagRunEachPop(in, p, slashAt, slashCount) ==
    IF slashAt = Len(in) \/ in[slashAt + 1] # "]"
    THEN Throw(p, <<"Expecting ']' after '[/'">>)
    ELSE IF p.stackLen <= slashCount
    THEN Throw(p, <<"Unbalanced closing tag">>)
    ELSE [PopEmitTimes(p, slashCount) EXCEPT !.at = slashAt + 1]

\* A variant of CloseTagRun: the balance is checked before the ']'
CloseTagRunBalanceFirst(in, p, slashAt, slashCount) ==
    IF p.stackLen <= slashCount
    THEN Throw(p, <<"Unbalanced closing tag">>)
    ELSE IF slashAt = Len(in) \/ in[slashAt + 1] # "]"
    THEN Throw(p, <<"Expecting ']' after '[/'">>)
    ELSE [appendSgrCode(PopTimes(p, slashCount),
                        stackBack(PopTimes(p, slashCount)), "pop", slashCount)
            EXCEPT !.at = slashAt + 1]

\* The closing tag at _at whose run of '/' ends at 'slashAt', of
\* 'slashCount' characters
CloseTagRun(in, p, slashAt, slashCount) ==
    IF slashAt = Len(in) \/ in[slashAt + 1] # "]"
    THEN Throw(p, <<"Expecting ']' after '[/'">>)
    ELSE IF p.stackLen <= slashCount
    THEN Throw(p, <<"Unbalanced closing tag">>)
    ELSE [appendSgrCode(PopTimes(p, slashCount),
                        stackBack(PopTimes(p, slashCount)), "pop", slashCount)
            EXCEPT !.at = slashAt + 1]

\* '[/' at _at
CloseTagStep(in, p) ==
    CloseTagRun(in, p, SlashRunEnd(in, p.at + 1), SlashRunEnd(in, p.at + 1) - (p.at + 1))

\* After _stackPush(frame) as 'r': _appendSgrCode(frame), unless it threw
PushedTag(r, frame) ==
    IF r.pc = "thrown" THEN r ELSE appendSgrCode(r, frame, "push", 1)

\* A variant of ParsedTag: the frame is pushed only when codes are emitted
ParsedTagEmitOnly(p, t) ==
    IF t.err # NoError THEN Throw([p EXCEPT !.at = t.at], t.err)
    ELSE IF ~p.emitSgrCodes THEN [p EXCEPT !.at = t.at]
    ELSE PushedTag(stackPush([p EXCEPT !.at = t.at], Inherit(t.frame, stackBack(p))),
                   Inherit(t.frame, stackBack(p)))

\* After _parseOpenTag() as 't': the inherited frame is pushed
ParsedTag(p, t) ==
    IF t.err # NoError THEN Throw([p EXCEPT !.at = t.at], t.err)
    ELSE PushedTag(stackPush([p EXCEPT !.at = t.at], Inherit(t.frame, stackBack(p))),
                   Inherit(t.frame, stackBack(p)))

\* '[' at _at, not followed by '/'
OpenTagStep(in, p) == ParsedTag(p, parseOpenTag(in, p.at))

\* A variant of LiteralStep: the character is written, the cursor stays
LiteralStepStays(in, p) == [p EXCEPT !.os = Append(@, in[p.at + 1])]

\* Any other character at _at
LiteralStep(in, p) == [p EXCEPT !.os = Append(@, in[p.at + 1]), !.at = @ + 1]

\* A variant of EndStep: the end of the loop without its check of the depth
EndStepUnchecked(p) == [p EXCEPT !.pc = "done"]

\* _at == _end: the loop ends
EndStep(p) ==
    IF p.stackLen > 1 THEN Throw(p, <<"Unbalanced opening tag">>)
    ELSE [p EXCEPT !.pc = "done"]

\* One iteration of the loop of _parse(), or its end
ScanStep(in, p) ==
    IF p.at = Len(in) THEN EndStep(p)
    ELSE IF in[p.at + 1] = "\\" THEN EscapeStep(in, p)
    ELSE IF in[p.at + 1] = "[" THEN
        IF IsClosingTag(in, p.at) THEN CloseTagStep(in, p) ELSE OpenTagStep(in, p)
    ELSE LiteralStep(in, p)

----------------------------------------------------------------------------
(* The characters a step reads: the offsets k of the '*(_at + k)' and      *)
(* '_at[k]' which it evaluates, each behind the test of '_end' the code    *)
(* makes before it                                                          *)

\* A variant of HexReads: the six characters are read whatever is left
HexReadsUnchecked(in, at) == at..(at + 5)

\* _tryParseHexColor() with _at at 'at': _at[0] to _at[5], unless fewer
\* than six characters are left
HexReads(in, at) == IF Len(in) - at < 6 THEN {} ELSE at..(at + 5)

\* _tryParseBasicColor() with _at at 'at': *_at, unless _at == _end
BasicReads(in, at) == IF at = Len(in) THEN {} ELSE {at}

\* One iteration of the loop of _parseOpenTag() for the character 'c' at
\* 'at': what follows the tests of *_at
SpecifierReads(in, at, c) ==
    IF c \in {" ", "!", "-", "_", "'", "^", "*"} THEN {}
    ELSE IF c = ":" THEN
        IF at + 1 # Len(in) /\ in[at + 2] = "#"
        THEN {at + 1} \cup HexReads(in, at + 2)
        ELSE (IF at + 1 # Len(in) THEN {at + 1} ELSE {}) \cup BasicReads(in, at + 1)
    ELSE IF c = "#" THEN HexReads(in, at + 1)
    ELSE BasicReads(in, at)

\* The loop of _parseOpenTag() from 'at', and the test for ']' after it
RECURSIVE ContentReads(_, _)
RECURSIVE ContentReadsAfter(_, _)
ContentReads(in, at) ==
    IF at = Len(in) THEN {}
    ELSE IF in[at + 1] = "]" THEN {at}
    ELSE {at} \cup SpecifierReads(in, at, in[at + 1])
            \cup ContentReadsAfter(in, OpenTagSpecifier(in, at, UninitFrame, in[at + 1]))

ContentReadsAfter(in, s) == IF s.err # NoError THEN {} ELSE ContentReads(in, s.at)

\* The closing-tag branch: the run of '/' from 'at' + 1 which ends at
\* 'slashAt', and the test for ']'
CloseTagReads(in, at, slashAt) ==
    ((at + 1)..(slashAt - 1)) \cup (IF slashAt < Len(in) THEN {slashAt} ELSE {})

\* One iteration of the loop of _parse() (_at != _end)
StepReads(in, p) ==
    IF in[p.at + 1] = "\\"
    THEN {p.at} \cup (IF p.at + 1 = Len(in) THEN {} ELSE {p.at + 1})
    ELSE IF in[p.at + 1] = "["
    THEN {p.at} \cup (IF p.at + 1 < Len(in) THEN {p.at + 1} ELSE {})
            \cup (IF IsClosingTag(in, p.at)
                  THEN CloseTagReads(in, p.at, SlashRunEnd(in, p.at + 1))
                  ELSE ContentReads(in, p.at + 1))
    ELSE {p.at}

----------------------------------------------------------------------------
(* mint::mint() *)

When == {"Auto", "Always", "Never"}

TerminalSupport == {"None", "BasicColor", "TrueColor"}

\* terminalSupport() was not called: mint() calls it in Auto mode only
NotProbed == "NotProbed"

\* A variant of EmitSgrCodesArg: codes are emitted unless 'when' is Never
EmitSgrCodesArgUnlessNever(w, s) == w # "Never"

\* The third and fourth arguments mint() gives to the Parser
EmitSgrCodesArg(w, s) == w = "Always" \/ (w = "Auto" /\ s # "None")

HasTrueColorSupportArg(w, s) == w = "Always" \/ (w = "Auto" /\ s = "TrueColor")

\* The Parser after its member initializers, before _parse()
NewParser(emitSgrCodes, hasTrueColorSupport) ==
    [at |-> 0, os |-> <<>>,
     stack |-> [i \in 0..(StackSize - 1) |-> UninitFrame], stackLen |-> 0,
     emitSgrCodes |-> emitSgrCodes, hasTrueColorSupport |-> hasTrueColorSupport,
     pc |-> "start", error |-> NoError, events |-> <<>>]

NoResult == <<"no result">>

\* Parser::str()
str(p) == p.os

\* A variant of MintReturn: the string of the Parser, whatever its end
MintReturnAnyway(p, r) == str(p)

\* What the caller of mint() has once the constructor of 'p' ended: the
\* string of the Parser when it returned, and still 'r' when it threw
MintReturn(p, r) == IF p.pc = "done" THEN str(p) ELSE r

\* The whole parse of 'in', as the constructor of Parser runs it
RECURSIVE RunFrom(_, _)
RunFrom(in, p) ==
    IF p.pc = "start" THEN RunFrom(in, PushDefaultStep(p))
    ELSE IF p.pc = "scan" THEN RunFrom(in, ScanStep(in, p))
    ELSE p

Run(in, emitSgrCodes, hasTrueColorSupport) ==
    RunFrom(in, NewParser(emitSgrCodes, hasTrueColorSupport))

----------------------------------------------------------------------------
(* mint::escape() *)

\* A variant of escapeStep: only '[' gets a backslash
escapeStepBrackets(in, at, res) ==
    IF in[at + 1] = "[" THEN res \o <<"\\", "[">> ELSE Append(res, in[at + 1])

\* One iteration of the loop: 'res' after the character at 'at'
escapeStep(in, at, res) ==
    IF in[at + 1] = "\\" THEN res \o <<"\\", "\\">>
    ELSE IF in[at + 1] = "[" THEN res \o <<"\\", "[">>
    ELSE Append(res, in[at + 1])

RECURSIVE escapeFrom(_, _, _)
escapeFrom(in, at, res) ==
    IF at = Len(in) THEN res ELSE escapeFrom(in, at + 1, escapeStep(in, at, res))

escape(in) == escapeFrom(in, 0, <<>>)

----------------------------------------------------------------------------
(* mint::escapeAnsi() *)

\* A variant of SkipToM: the scan stops at ';' too
RECURSIVE SkipToMOrSemicolon(_, _)
SkipToMOrSemicolon(in, scanAt) ==
    IF scanAt < Len(in) /\ in[scanAt + 1] # "m" /\ in[scanAt + 1] # ";"
    THEN SkipToMOrSemicolon(in, scanAt + 1)
    ELSE scanAt

\* 'scanAt' after the while loop: at the first 'm' from 'scanAt' on, or at
\* the end
RECURSIVE SkipToM(_, _)
SkipToM(in, scanAt) ==
    IF scanAt < Len(in) /\ in[scanAt + 1] # "m" THEN SkipToM(in, scanAt + 1) ELSE scanAt

\* A variant of AfterSkip: the 'm' which ends the sequence is not skipped
AfterSkipKeepsM(in, s, scanAt) ==
    IF scanAt < Len(in) /\ in[scanAt + 1] = "m"
    THEN [at |-> scanAt, result |-> s.result]
    ELSE [at |-> s.at + 1, result |-> Append(s.result, in[s.at + 1])]

\* A variant of AfterSkip: nothing is kept of a sequence without 'm'
AfterSkipDropsEsc(in, s, scanAt) ==
    IF scanAt < Len(in) /\ in[scanAt + 1] = "m"
    THEN [at |-> scanAt + 1, result |-> s.result]
    ELSE [at |-> s.at + 1, result |-> s.result]

\* After the while loop which left 'scanAt': the sequence is skipped ('at'
\* goes to its 'm', and then one further), or the escape character is kept
AfterSkip(in, s, scanAt) ==
    IF scanAt < Len(in) /\ in[scanAt + 1] = "m"
    THEN [at |-> scanAt + 1, result |-> s.result]
    ELSE [at |-> s.at + 1, result |-> Append(s.result, in[s.at + 1])]

\* One iteration of the for loop from the state 's': 'at' and 'result'
escapeAnsiStep(in, s) ==
    IF in[s.at + 1] = ESC /\ s.at + 1 < Len(in) /\ in[s.at + 2] = "["
    THEN AfterSkip(in, s, SkipToM(in, s.at + 2))
    ELSE [at |-> s.at + 1, result |-> Append(s.result, in[s.at + 1])]

RECURSIVE escapeAnsiFrom(_, _)
escapeAnsiFrom(in, s) ==
    IF s.at = Len(in) THEN s.result ELSE escapeAnsiFrom(in, escapeAnsiStep(in, s))

escapeAnsi(in) == escapeAnsiFrom(in, [at |-> 0, result |-> <<>>])

----------------------------------------------------------------------------
(* mint::terminalSupport() *)

\* What std::getenv() returns for a variable which is not set
NullPtr == <<"nullptr">>

Dumb == <<"d", "u", "m", "b">>

DirectSuffix == <<"-", "d", "i", "r", "e", "c", "t">>

TrueColorTerms ==
    {<<"a", "l", "a", "c", "r", "i", "t", "t", "y">>,
     <<"x", "t", "e", "r", "m", "-", "k", "i", "t", "t", "y">>,
     <<"w", "e", "z", "t", "e", "r", "m">>, <<"f", "o", "o", "t">>,
     <<"g", "h", "o", "s", "t", "t", "y">>}

TrueColorColorTerms == {<<"t", "r", "u", "e", "c", "o", "l", "o", "r">>, <<"2", "4", "b", "i", "t">>, <<"y", "e", "s">>}

\* std::string::find(suffix, pos) != npos: 'suffix' is in 'string' at 'pos' or
\* after
FindsFrom(string, suffix, pos) ==
    \E p \in pos..(Len(string) - Len(suffix)) : SubSeq(string, p + 1, p + Len(suffix)) = suffix

endsWith(string, suffix) ==
    IF Len(string) < Len(suffix) THEN FALSE
    ELSE FindsFrom(string, suffix, Len(string) - Len(suffix))

\* The lambdas which read TERM and COLORTERM: the value, or an empty
\* string
EnvString(termEnv) == IF termEnv # NullPtr THEN termEnv ELSE <<>>

\* The terminal explicitly doesn't support escape codes
IsDumb(term) == Len(term) = 0 \/ term = Dumb

\* A variant of HasTrueColor: TERM is not tested for its suffix
HasTrueColorByName(term, colorTerm) ==
    colorTerm \in TrueColorColorTerms \/ term \in TrueColorTerms

\* The three checks for true colours
HasTrueColor(term, colorTerm) ==
    \/ colorTerm \in TrueColorColorTerms
    \/ endsWith(term, DirectSuffix)
    \/ term \in TrueColorTerms

\* A variant of OnceEntry: a caller does not wait for the active one
OnceEntryNoWait(flag) == IF flag = "idle" THEN "run" ELSE "skip"

\* std::call_once(): the caller which finds the flag idle runs the
\* function, one which finds a call active waits for it, and one which
\* finds it done goes on
OnceEntry(flag) ==
    IF flag = "idle" THEN "run" ELSE IF flag = "active" THEN "wait" ELSE "skip"

\* A variant of RestoredErrno: errno is left as it is
RestoredErrnoNot(th) == th.errno

\* errno = savedErrno
RestoredErrno(th) == th.savedErrno

NotRead == <<"not read">>

\* A thread outside terminalSupport(); 'entryErrno' is errno when the
\* thread entered its call, 'ret' what its last call returned
IdleThread ==
    [pc |-> "idle", errno |-> "0", savedErrno |-> "0", entryErrno |-> "0",
     term |-> <<>>, calls |-> 0, returned |-> 0, ret |-> "None"]

Threads == 1..MaxThreads

\* The static variables before any call: the zero-initialized 'support' is
\* TerminalSupport::None
NoProbe ==
    /\ environment = [isatty |-> FALSE, fstatOk |-> TRUE, isChr |-> FALSE,
                      TERM |-> NullPtr, COLORTERM |-> NullPtr]
    /\ changes = 0
    /\ initFlag = "idle"
    /\ staticSupport = "None"
    /\ probed = [isatty |-> NotRead, fstatOk |-> NotRead, isChr |-> NotRead,
                 TERM |-> NotRead, COLORTERM |-> NotRead]
    /\ probeRuns = 0
    /\ threads = [t \in Threads |-> IdleThread]

----------------------------------------------------------------------------
(* The checked inputs *)

SeqsUpTo(S, n) == UNION {[1..k -> S] : k \in 0..n}

RECURSIVE Flatten(_)
Flatten(ts) == IF Len(ts) = 0 THEN <<>> ELSE Head(ts) \o Flatten(Tail(ts))

NestTokens ==
    {<<"[", "!", "]">>, <<"[", "/", "]">>, <<"[", "/", "/", "/", "]">>}

Red == <<"#", "e", "7", "4", "c", "3", "c">>

Blue == <<"#", "0", "A", "0", "0", "f", "F">>

StyleTokens ==
    {<<"[", " ", "*", "r", " ", "]">>,
     <<"[", "g", ":", "b", "]">>,
     <<"[", "_", ":", "d", "]">>,
     <<"[">> \o Red \o <<"]">>,
     <<"[", "y">> \o Red \o <<"]">>,
     <<"[">> \o Blue \o <<"c", "]">>,
     <<"[", ":", "m", ":">> \o Red \o <<"]">>,
     <<"[", "k", ":", "w", ":", "y", "]">>,
     <<"[", "/", "]">>,
     <<"X">>}

Alphabet == {"\\", "[", "]", "/", "!", "m"}

Inputs ==
    {Flatten(ts) : ts \in SeqsUpTo(NestTokens, MaxNest)}
    \cup {Flatten(ts) : ts \in SeqsUpTo(StyleTokens, MaxStyle)}
    \cup SeqsUpTo(Alphabet, MaxLen)

----------------------------------------------------------------------------
(* The state machine *)

Init ==
    /\ when \in When
    /\ support \in (IF when = "Auto" THEN TerminalSupport ELSE {NotProbed})
    /\ input \in Inputs
    /\ parser = NewParser(EmitSgrCodesArg(when, support),
                          HasTrueColorSupportArg(when, support))
    /\ result = NoResult
    /\ text = <<>>
    /\ calls = <<>>
    /\ NoProbe

PushDefault ==
    /\ parser.pc = "start"
    /\ parser' = PushDefaultStep(parser)
    /\ UNCHANGED <<when, support, input, result>>
    /\ UNCHANGED <<helperVars, probeVars>>

Escape ==
    /\ parser.pc = "scan"
    /\ parser.at # Len(input)
    /\ input[parser.at + 1] = "\\"
    /\ parser' = EscapeStep(input, parser)
    /\ UNCHANGED <<when, support, input, result>>
    /\ UNCHANGED <<helperVars, probeVars>>

CloseTag ==
    /\ parser.pc = "scan"
    /\ parser.at # Len(input)
    /\ input[parser.at + 1] = "["
    /\ IsClosingTag(input, parser.at)
    /\ parser' = CloseTagStep(input, parser)
    /\ UNCHANGED <<when, support, input, result>>
    /\ UNCHANGED <<helperVars, probeVars>>

OpenTag ==
    /\ parser.pc = "scan"
    /\ parser.at # Len(input)
    /\ input[parser.at + 1] = "["
    /\ ~IsClosingTag(input, parser.at)
    /\ parser' = OpenTagStep(input, parser)
    /\ UNCHANGED <<when, support, input, result>>
    /\ UNCHANGED <<helperVars, probeVars>>

Literal ==
    /\ parser.pc = "scan"
    /\ parser.at # Len(input)
    /\ input[parser.at + 1] # "\\"
    /\ input[parser.at + 1] # "["
    /\ parser' = LiteralStep(input, parser)
    /\ UNCHANGED <<when, support, input, result>>
    /\ UNCHANGED <<helperVars, probeVars>>

\* The loop of _parse() ends; when _parse() returns, so does the
\* constructor, and mint() returns parser.str()
End ==
    /\ parser.pc = "scan"
    /\ parser.at = Len(input)
    /\ parser' = EndStep(parser)
    /\ result' = MintReturn(parser', result)
    /\ UNCHANGED <<when, support, input>>
    /\ UNCHANGED <<helperVars, probeVars>>

Next == PushDefault \/ Escape \/ CloseTag \/ OpenTag \/ Literal \/ End

Spec == Init /\ [][Next]_vars

\* mint(input, When::Always) on a few tokens: an escape, an opening and a
\* closing tag, a character, and a '[' and a '\' that can end the input.
\* The constructor of Parser runs _parse() to its end: a parse which has a
\* next step takes it.
RunTokens ==
    {<<"\\", "[">>, <<"[", "!", "]">>, <<"[", "/", "]">>, <<"m">>, <<"[">>, <<"\\">>}

RunInputs == {Flatten(ts) : ts \in SeqsUpTo(RunTokens, MaxRun)}

InitRun ==
    /\ when = "Always"
    /\ support = NotProbed
    /\ input \in RunInputs
    /\ parser = NewParser(EmitSgrCodesArg(when, support),
                          HasTrueColorSupportArg(when, support))
    /\ result = NoResult
    /\ text = <<>>
    /\ calls = <<>>
    /\ NoProbe

SpecRun == InitRun /\ [][Next]_vars /\ WF_vars(Next)

----------------------------------------------------------------------------
(* mint(input, When::Always) on the text of one opening tag *)

\* What an opening tag is made of, whole or not: a space, a tab, a flag,
\* the ':' and the '#' of a colour, a colour letter, the ']' and hex digits
TagTokens ==
    {<<" ">>, <<TAB>>, <<"!">>, <<":">>, <<"#">>, <<"r">>, <<"]">>,
     <<"e", "7", "4">>, <<"0", "f", "F">>}

\* What precedes the tag: nothing, or a tag that stays open
TagPrefixes == {<<>>, <<"[", "!", "]">>}

\* An escape, then a tag and its closing tag
ClosedTag == <<"\\", "[", "[", "!", "]", "[", "/", "]">>

\* Inputs which end in an escape or in a closing tag
CutInputs ==
    {<<"\\">>, <<"m", "\\">>, <<"[", "/">>, <<"[", "/", "m">>,
     <<"[", "!", "]", "[", "/", "/">>}

TagInputs ==
    {pre \o <<"[">> \o Flatten(ts) :
        pre \in TagPrefixes, ts \in SeqsUpTo(TagTokens, MaxTag)}
    \cup {ClosedTag} \cup CutInputs

InitTag ==
    /\ when = "Always"
    /\ support = NotProbed
    /\ input \in TagInputs
    /\ parser = NewParser(EmitSgrCodesArg(when, support),
                          HasTrueColorSupportArg(when, support))
    /\ result = NoResult
    /\ text = <<>>
    /\ calls = <<>>
    /\ NoProbe

SpecTag == InitTag /\ [][Next]_vars

----------------------------------------------------------------------------
(* The callers of escape(), escapeAnsi() and mint() on a text *)

\* The characters of the texts given to escape()
PlainAlphabet == {"\\", "[", "]", "/", "X"}

PlainTexts == SeqsUpTo(PlainAlphabet, MaxText)

\* The tokens of the inputs of mint() whose literal text has the
\* characters of an escape code
MarkupTokens ==
    {<<ESC>>, <<"\\", "[">>, <<"m">>, <<"[", "!", "]">>, <<"[", "/", "]">>}

MarkupTexts == {Flatten(ts) : ts \in SeqsUpTo(MarkupTokens, MaxMarkup)}

\* The characters of the strings given to escapeAnsi() alone
RawAlphabet == {ESC, "[", "m", "0"}

RawTexts == SeqsUpTo(RawAlphabet, MaxRaw)

\* The values of 'when', each with what terminalSupport() returns to mint()
Modes ==
    {<<"Auto", s>> : s \in TerminalSupport} \cup {<<"Always", NotProbed>>, <<"Never", NotProbed>>}

\* Before any call
InitText ==
    /\ text \in PlainTexts \cup MarkupTexts \cup RawTexts
    /\ calls = <<>>
    /\ when = "Never"
    /\ support = NotProbed
    /\ input = <<>>
    /\ parser = NewParser(FALSE, FALSE)
    /\ result = NoResult
    /\ NoProbe

\* A whole call mint(in, w), terminalSupport() returning 's' to it
Mint(in, w, s) ==
    /\ when' = w
    /\ support' = s
    /\ input' = in
    /\ parser' = Run(in, EmitSgrCodesArg(w, s), HasTrueColorSupportArg(w, s))
    /\ result' = MintReturn(parser', NoResult)
    /\ calls' = Append(calls, [fn |-> "mint", arg |-> in, ret |-> result'])
    /\ UNCHANGED <<text, probeVars>>

CallEscape ==
    /\ calls = <<>>
    /\ text \in PlainTexts
    /\ calls' = <<[fn |-> "escape", arg |-> text, ret |-> escape(text)]>>
    /\ UNCHANGED <<when, support, input, parser, result, text, probeVars>>

\* mint(escape(text), when)
CallMintEscaped ==
    /\ Len(calls) = 1
    /\ calls[1].fn = "escape"
    /\ \E m \in Modes : Mint(calls[1].ret, m[1], m[2])

\* mint(text, when)
CallMint ==
    /\ calls = <<>>
    /\ text \in MarkupTexts
    /\ \E m \in Modes : Mint(text, m[1], m[2])

CallEscapeAnsi ==
    /\ calls = <<>>
    /\ text \in RawTexts
    /\ calls' = <<[fn |-> "escapeAnsi", arg |-> text, ret |-> escapeAnsi(text)]>>
    /\ UNCHANGED <<when, support, input, parser, result, text, probeVars>>

\* escapeAnsi(mint(text, when))
CallEscapeAnsiOfMint ==
    /\ Len(calls) = 1
    /\ calls[1].fn = "mint"
    /\ result # NoResult
    /\ calls' = Append(calls, [fn |-> "escapeAnsi", arg |-> result, ret |-> escapeAnsi(result)])
    /\ UNCHANGED <<when, support, input, parser, result, text, probeVars>>

NextText ==
    CallEscape \/ CallMintEscaped \/ CallMint \/ CallEscapeAnsi \/ CallEscapeAnsiOfMint

SpecText == InitText /\ [][NextText]_vars

----------------------------------------------------------------------------
(* The threads which call terminalSupport() *)

Xterm == <<"x", "t", "e", "r", "m">>

\* Values of TERM: not set, empty, and names
Terms ==
    {NullPtr, <<>>, Dumb, Xterm, Xterm \o DirectSuffix, DirectSuffix,
     <<"d", "i", "r", "e", "c", "t">>, <<"f", "o", "o", "t", "x">>}
    \cup TrueColorTerms

\* Values of COLORTERM
ColorTerms == {NullPtr, <<>>, <<"n", "o">>} \cup TrueColorColorTerms

\* Standard output (what isatty() and fstat() answer for it, and whether
\* it is a character device) and the two environment variables
Environments ==
    [isatty : BOOLEAN, fstatOk : BOOLEAN, isChr : BOOLEAN, TERM : Terms, COLORTERM : ColorTerms]

\* The environments of the processes of several threads
FewEnvironments ==
    {[isatty |-> FALSE, fstatOk |-> TRUE, isChr |-> FALSE, TERM |-> Xterm, COLORTERM |-> NullPtr],
     [isatty |-> TRUE, fstatOk |-> TRUE, isChr |-> TRUE, TERM |-> Xterm,
      COLORTERM |-> <<"t", "r", "u", "e", "c", "o", "l", "o", "r">>],
     [isatty |-> TRUE, fstatOk |-> FALSE, isChr |-> TRUE, TERM |-> Xterm, COLORTERM |-> NullPtr],
     [isatty |-> TRUE, fstatOk |-> TRUE, isChr |-> TRUE, TERM |-> Dumb, COLORTERM |-> NullPtr]}

\* What the environment may become during the calls
LaterEnvironments ==
    {[isatty |-> FALSE, fstatOk |-> TRUE, isChr |-> FALSE, TERM |-> Dumb, COLORTERM |-> NullPtr],
     [isatty |-> TRUE, fstatOk |-> TRUE, isChr |-> TRUE, TERM |-> <<"f", "o", "o", "t">>,
      COLORTERM |-> NullPtr]}

\* Values of errno when a thread calls terminalSupport()
ErrnoValues == {"0", "42"}

\* A process of one thread in any environment, or of several threads in
\* one of a few, before any call
InitProbe ==
    /\ when = "Auto"
    /\ support = NotProbed
    /\ input = <<>>
    /\ parser = NewParser(FALSE, FALSE)
    /\ result = NoResult
    /\ text = <<>>
    /\ calls = <<>>
    /\ \E n \in Threads :
        /\ threads = [t \in 1..n |-> IdleThread]
        /\ environment \in (IF n = 1 THEN Environments ELSE FewEnvironments)
    /\ changes = 0
    /\ initFlag = "idle"
    /\ staticSupport = "None"
    /\ probed = [isatty |-> NotRead, fstatOk |-> NotRead, isChr |-> NotRead,
                 TERM |-> NotRead, COLORTERM |-> NotRead]
    /\ probeRuns = 0

NotProbeVars == <<when, support, input, parser, result, text, calls>>

\* The thread 't' becomes 'th'
Becomes(t, th) == threads' = [threads EXCEPT ![t] = th]

\* The function given to call_once() returns: the flag is set
Stored(value) == staticSupport' = value /\ initFlag' = "done"

\* The thread calls terminalSupport(): savedErrno = errno
Enter ==
    \E t \in DOMAIN threads :
        /\ threads[t].pc = "idle"
        /\ threads[t].calls < MaxCalls
        /\ \E v \in ErrnoValues :
            Becomes(t, [threads[t] EXCEPT !.pc = "call_once", !.errno = v, !.savedErrno = v,
                                          !.entryErrno = v, !.calls = @ + 1])
        /\ UNCHANGED <<environment, changes, initFlag, staticSupport, probed, probeRuns>>
        /\ UNCHANGED NotProbeVars

\* std::call_once(initFlag, ...)
CallOnce ==
    \E t \in DOMAIN threads :
        /\ threads[t].pc = "call_once"
        /\ OnceEntry(initFlag) # "wait"
        /\ IF OnceEntry(initFlag) = "run"
           THEN /\ initFlag' = "active"
                /\ probeRuns' = probeRuns + 1
                /\ Becomes(t, [threads[t] EXCEPT !.pc = "isatty"])
           ELSE /\ Becomes(t, [threads[t] EXCEPT !.pc = "restore"])
                /\ UNCHANGED <<initFlag, probeRuns>>
        /\ UNCHANGED <<environment, changes, staticSupport, probed>>
        /\ UNCHANGED NotProbeVars

\* isatty(STDOUT_FILENO), which sets errno when it returns 0
ProbeIsatty ==
    \E t \in DOMAIN threads :
        /\ threads[t].pc = "isatty"
        /\ probed' = [probed EXCEPT !.isatty = environment.isatty]
        /\ IF environment.isatty
           THEN /\ Becomes(t, [threads[t] EXCEPT !.pc = "fstat"])
                /\ UNCHANGED <<initFlag, staticSupport>>
           ELSE /\ Becomes(t, [threads[t] EXCEPT !.pc = "restore", !.errno = "ENOTTY"])
                /\ Stored("None")
        /\ UNCHANGED <<environment, changes, probeRuns>>
        /\ UNCHANGED NotProbeVars

\* fstat(STDOUT_FILENO, &ttyStats), which sets errno when it fails, and
\* S_ISCHR() when it succeeds
ProbeFstat ==
    \E t \in DOMAIN threads :
        /\ threads[t].pc = "fstat"
        /\ probed' = [probed EXCEPT !.fstatOk = environment.fstatOk, !.isChr = environment.isChr]
        /\ IF environment.fstatOk /\ ~environment.isChr
           THEN /\ Becomes(t, [threads[t] EXCEPT !.pc = "restore"])
                /\ Stored("None")
           ELSE /\ Becomes(t, [threads[t] EXCEPT
                                  !.pc = "getenv_TERM",
                                  !.errno = IF environment.fstatOk THEN @ ELSE "EBADF"])
                /\ UNCHANGED <<initFlag, staticSupport>>
        /\ UNCHANGED <<environment, changes, probeRuns>>
        /\ UNCHANGED NotProbeVars

\* std::getenv("TERM")
ProbeTerm ==
    \E t \in DOMAIN threads :
        /\ threads[t].pc = "getenv_TERM"
        /\ probed' = [probed EXCEPT !.TERM = environment.TERM]
        /\ IF IsDumb(EnvString(environment.TERM))
           THEN /\ Becomes(t, [threads[t] EXCEPT !.pc = "restore"])
                /\ Stored("None")
           ELSE /\ Becomes(t, [threads[t] EXCEPT !.pc = "getenv_COLORTERM",
                                                 !.term = EnvString(environment.TERM)])
                /\ staticSupport' = "BasicColor"
                /\ UNCHANGED initFlag
        /\ UNCHANGED <<environment, changes, probeRuns>>
        /\ UNCHANGED NotProbeVars

\* std::getenv("COLORTERM") and the checks for true colours
ProbeColorTerm ==
    \E t \in DOMAIN threads :
        /\ threads[t].pc = "getenv_COLORTERM"
        /\ probed' = [probed EXCEPT !.COLORTERM = environment.COLORTERM]
        /\ Becomes(t, [threads[t] EXCEPT !.pc = "restore"])
        /\ Stored(IF HasTrueColor(threads[t].term, EnvString(environment.COLORTERM))
                  THEN "TrueColor" ELSE staticSupport)
        /\ UNCHANGED <<environment, changes, probeRuns>>
        /\ UNCHANGED NotProbeVars

\* errno = savedErrno; return support
Return ==
    \E t \in DOMAIN threads :
        /\ threads[t].pc = "restore"
        /\ Becomes(t, [threads[t] EXCEPT !.pc = "idle", !.errno = RestoredErrno(threads[t]),
                                         !.ret = staticSupport, !.returned = @ + 1])
        /\ UNCHANGED <<environment, changes, initFlag, staticSupport, probed, probeRuns>>
        /\ UNCHANGED NotProbeVars

\* Standard output is redirected, or the environment variables are set
ChangeEnvironment ==
    /\ changes < MaxChanges
    /\ environment' \in LaterEnvironments \ {environment}
    /\ changes' = changes + 1
    /\ UNCHANGED <<initFlag, staticSupport, probed, probeRuns, threads>>
    /\ UNCHANGED NotProbeVars

NextProbe ==
    \/ Enter \/ CallOnce \/ ProbeIsatty \/ ProbeFstat \/ ProbeTerm \/ ProbeColorTerm
    \/ Return \/ ChangeEnvironment

SpecProbe == InitProbe /\ [][NextProbe]_vars

----------------------------------------------------------------------------
(* Sanity of the model *)

HasNoIndeterminate(frame) ==
    /\ frame.hasFgColor => frame.fgColorCodeOffset # Indeterminate
    /\ frame.hasBgColor => frame.bgColorCodeOffset # Indeterminate
    /\ frame.hasFgTrueColor => frame.fgTrueColor # IndeterminateColor
    /\ frame.hasBgTrueColor => frame.bgTrueColor # IndeterminateColor

\* A member which was never assigned is never read: the frames in use have
\* a value for every colour they say they have.
NoIndeterminateRead ==
    \A i \in 0..(parser.stackLen - 1) :
        i < StackSize => HasNoIndeterminate(parser.stack[i])

TypeOK ==
    /\ when \in When
    /\ support \in TerminalSupport \cup {NotProbed}
    /\ parser.at \in 0..Len(input)
    /\ parser.stackLen \in 0..StackSize
    /\ parser.pc \in {"start", "scan", "done", "thrown"}
    /\ (parser.pc = "thrown") = (parser.error # NoError)
    /\ (result # NoResult) => parser.pc = "done"

----------------------------------------------------------------------------
(* What the properties below read of a state and of a step *)

\* The scan is at a character
Scanning == parser.pc = "scan" /\ parser.at < Len(input)

\* The scan is at the '[' of an opening tag
AtOpenTag ==
    /\ Scanning
    /\ input[parser.at + 1] = "["
    /\ ~(parser.at + 2 <= Len(input) /\ input[parser.at + 2] = "/")

\* At _at is a closing tag of k '/' followed by ']'
ClosingTagAt(k) ==
    /\ k >= 1
    /\ parser.at + k + 2 <= Len(input)
    /\ input[parser.at + 1] = "["
    /\ \A i \in 1..k : input[parser.at + 1 + i] = "/"
    /\ input[parser.at + k + 2] = "]"

\* The scan is at a closing tag of k '/' followed by ']'
AtCloseTag(k) == Scanning /\ ClosingTagAt(k)

\* The frames pushed by opening tags, and the levels popped by closing
\* tags, so far
RECURSIVE Pushes(_)
Pushes(events) ==
    IF Len(events) = 0 THEN 0
    ELSE (IF Head(events).op = "push" THEN 1 ELSE 0) + Pushes(Tail(events))

RECURSIVE Pops(_)
Pops(events) ==
    IF Len(events) = 0 THEN 0
    ELSE (IF Head(events).op = "pop" THEN Head(events).n ELSE 0) + Pops(Tail(events))

Failure(what) == parser'.pc = "thrown" /\ parser'.error = <<what>>

----------------------------------------------------------------------------
(* C1 *)

\* C1: mint() returns only when the scan reached the end of the input with
\* the stack back at depth 1, and then as many frames were pushed by
\* opening tags as levels were popped by closing tags; when the scan
\* reaches the end of the input at a depth greater than 1, mint() fails
\* with "Unbalanced opening tag".
C1_BalancedAtEnd ==
    [][/\ parser'.pc = "done" =>
            /\ parser.at = Len(input)
            /\ parser'.stackLen = 1
            /\ Pushes(parser'.events) = Pops(parser'.events)
            /\ result' = parser'.os
       /\ (parser.pc = "scan" /\ parser.at = Len(input) /\ parser.stackLen > 1) =>
            /\ Failure("Unbalanced opening tag")
            /\ result' = NoResult
       /\ (parser.pc = "scan" /\ parser.at = Len(input) /\ parser.stackLen = 1) =>
            parser'.pc = "done"]_vars

C1_Witness ==
    /\ parser.pc = "done"
    /\ Pushes(parser.events) >= 3
    /\ \E i \in 1..Len(parser.events) :
          parser.events[i].op = "pop" /\ parser.events[i].n >= 2

----------------------------------------------------------------------------
(* C2 *)

\* C2: the depth of the stack never exceeds 5; an opening tag which parses
\* is pushed when the depth is below 5 (so four nested tags bring it to 5),
\* and at depth 5 it fails with "Maximum nesting depth exceeded" and the
\* stack is left as it was.
C2_DepthLimit ==
    /\ [](parser.stackLen <= 5)
    /\ [][(AtOpenTag /\ parseOpenTag(input, parser.at).err = NoError) =>
            IF parser.stackLen = 5
            THEN /\ Failure("Maximum nesting depth exceeded")
                 /\ parser'.stackLen = 5
                 /\ parser'.stack = parser.stack
            ELSE /\ parser'.pc = "scan"
                 /\ parser'.stackLen = parser.stackLen + 1]_vars

C2_Witness ==
    /\ parser.error = <<"Maximum nesting depth exceeded">>
    /\ parser.stackLen = 5
    /\ Pushes(parser.events) = 4

----------------------------------------------------------------------------
(* C3 *)

\* C3: once the default frame is pushed the depth is at least 1 and slot 0
\* holds the default frame; a closing tag of k slashes followed by ']',
\* scanned at depth d, fails with "Unbalanced closing tag" and leaves the
\* stack as it was when k >= d, and otherwise pops exactly k frames.
C3_DefaultFrameStays ==
    /\ [](parser.pc # "start" =>
            parser.stackLen >= 1 /\ parser.stack[0] = DefaultFrame)
    /\ [][\A k \in 1..Len(input) : AtCloseTag(k) =>
            IF k >= parser.stackLen
            THEN /\ Failure("Unbalanced closing tag")
                 /\ parser'.stackLen = parser.stackLen
                 /\ parser'.stack = parser.stack
            ELSE /\ parser'.pc = "scan"
                 /\ parser'.stackLen = parser.stackLen - k
                 /\ parser'.stackLen >= 1
                 /\ parser'.stack = parser.stack]_vars

C3_Witness ==
    /\ parser.error = <<"Unbalanced closing tag">>
    /\ parser.stackLen >= 3
    /\ ClosingTagAt(3)

----------------------------------------------------------------------------
(* C4 *)

BoolFlags == {"hasBold", "hasDim", "hasUnderline", "hasItalic", "hasReverse", "hasBright"}

ColourFlags == {"hasFgColor", "hasBgColor", "hasFgTrueColor", "hasBgTrueColor"}

\* An opening tag is pushed by this step
PushesTag == AtOpenTag /\ parser'.pc = "scan"

\* What the tag at _at sets by itself, the top of the stack before the
\* step, and the frame the step pushes
TagFrame == parseOpenTag(input, parser.at).frame

Back == parser.stack[parser.stackLen - 1]

Pushed == parser'.stack[parser.stackLen]

\* C4: every flag of a pushed frame is the flag the tag sets OR the flag of
\* the previous top of the stack, and a colour setting (basic or true
\* colour, foreground or background) which the previous top has, the pushed
\* frame has too; so every frame in use has every flag and every colour
\* setting of the frame below it.
C4_AdditiveNesting ==
    /\ [](\A i \in 1..(parser.stackLen - 1) : \A f \in BoolFlags \cup ColourFlags :
            parser.stack[i - 1][f] => parser.stack[i][f])
    /\ [][PushesTag =>
            /\ \A f \in BoolFlags : Pushed[f] = (TagFrame[f] \/ Back[f])
            /\ \A f \in ColourFlags : Back[f] => Pushed[f]]_vars

C4_Witness ==
    /\ parser.pc = "scan"
    /\ parser.stackLen = 3
    /\ parser.stack[1].hasUnderline /\ ~parser.stack[1].hasFgColor
    /\ parser.stack[2].hasUnderline /\ parser.stack[2].hasFgColor
    /\ parser.stack[2].hasBright

----------------------------------------------------------------------------
(* C5 *)

SameFg(a, b) ==
    /\ a.hasFgColor = b.hasFgColor
    /\ a.hasFgColor => a.fgColorCodeOffset = b.fgColorCodeOffset
    /\ a.hasFgTrueColor = b.hasFgTrueColor
    /\ a.hasFgTrueColor => a.fgTrueColor = b.fgTrueColor

SameBg(a, b) ==
    /\ a.hasBgColor = b.hasBgColor
    /\ a.hasBgColor => a.bgColorCodeOffset = b.bgColorCodeOffset
    /\ a.hasBgTrueColor = b.hasBgTrueColor
    /\ a.hasBgTrueColor => a.bgTrueColor = b.bgTrueColor

\* C5 as claimed: per channel, the pushed frame has the whole setting of
\* the previous top when the tag specifies no colour for the channel, and
\* otherwise exactly the tag's own setting.
C5_PerChannelMerge ==
    [][PushesTag =>
        /\ IF ~TagFrame.hasFgColor /\ ~TagFrame.hasFgTrueColor
           THEN SameFg(Pushed, Back) ELSE SameFg(Pushed, TagFrame)
        /\ IF ~TagFrame.hasBgColor /\ ~TagFrame.hasBgTrueColor
           THEN SameBg(Pushed, Back) ELSE SameBg(Pushed, TagFrame)]_vars

\* The setting 'has' (with its value 'val') of the pushed frame is the
\* tag's own when the tag specifies it, and otherwise that of the previous
\* top of the stack
MergedSetting(has, val) ==
    /\ Pushed[has] = (TagFrame[has] \/ Back[has])
    /\ TagFrame[has] => Pushed[val] = TagFrame[val]
    /\ (~TagFrame[has] /\ Back[has]) => Pushed[val] = Back[val]

\* C5, amended: the merge is per setting, not per channel.  Each of the
\* basic foreground, true-colour foreground, basic background and
\* true-colour background of the pushed frame is the tag's own when the tag
\* specifies it, and otherwise a copy of the previous top's; so a tag
\* without any colour for a channel gets the whole setting of the previous
\* top for it.
C5_PerSettingMerge ==
    [][PushesTag =>
        /\ MergedSetting("hasFgColor", "fgColorCodeOffset")
        /\ MergedSetting("hasFgTrueColor", "fgTrueColor")
        /\ MergedSetting("hasBgColor", "bgColorCodeOffset")
        /\ MergedSetting("hasBgTrueColor", "bgTrueColor")
        /\ (~TagFrame.hasFgColor /\ ~TagFrame.hasFgTrueColor) => SameFg(Pushed, Back)
        /\ (~TagFrame.hasBgColor /\ ~TagFrame.hasBgTrueColor) => SameBg(Pushed, Back)]_vars

\* After [g:b][#e74c3c]: the second tag specifies a true-colour foreground
\* only, and its frame has the basic foreground of the first as well
C5_Witness ==
    /\ parser.pc = "scan"
    /\ Len(input) >= 14
    /\ SubSeq(input, 1, 14) = <<"[", "g", ":", "b", "]", "[">> \o Red \o <<"]">>
    /\ parser.at = 14
    /\ parser.stackLen = 3
    /\ parser.stack[2].hasFgTrueColor
    /\ parser.stack[2].hasFgColor /\ parser.stack[2].fgColorCodeOffset = 2

----------------------------------------------------------------------------
(* C6 *)

\* A closing tag is popped by this step
PopsTag == (\E k \in 1..Len(input) : AtCloseTag(k)) /\ parser'.pc = "scan"

\* The top of the stack after the step, and what the step wrote
Top == parser'.stack[parser'.stackLen - 1]

Written == SubSeq(parser'.os, Len(parser.os) + 1, Len(parser'.os))

Numerals == <<"0", "1", "2", "3", "4", "5", "6", "7", "8", "9">>

\* The decimal numeral of n in 0..999
Numeral(n) ==
    IF n >= 100
    THEN <<Numerals[(n \div 100) + 1], Numerals[((n \div 10) % 10) + 1], Numerals[(n % 10) + 1]>>
    ELSE IF n >= 10 THEN <<Numerals[(n \div 10) + 1], Numerals[(n % 10) + 1]>>
    ELSE <<Numerals[n + 1]>>

RefTrueColor(color) ==
    <<";", "2", ";">> \o Numeral(color.r) \o <<";">> \o Numeral(color.g)
        \o <<";">> \o Numeral(color.b)

\* The encoding of a frame as the documentation gives it
RefSgr(trueColor, f) ==
    <<ESC, "[", "0">>
    \o (IF f.hasBold THEN <<";", "1">> ELSE <<>>)
    \o (IF f.hasDim THEN <<";", "2">> ELSE <<>>)
    \o (IF f.hasItalic THEN <<";", "3">> ELSE <<>>)
    \o (IF f.hasUnderline THEN <<";", "4">> ELSE <<>>)
    \o (IF f.hasReverse THEN <<";", "7">> ELSE <<>>)
    \o (IF trueColor /\ f.hasFgTrueColor THEN <<";", "3", "8">> \o RefTrueColor(f.fgTrueColor)
        ELSE IF f.hasFgColor
        THEN <<";", IF f.hasBright THEN "9" ELSE "3", Numerals[f.fgColorCodeOffset + 1]>>
        ELSE <<>>)
    \o (IF trueColor /\ f.hasBgTrueColor THEN <<";", "4", "8">> \o RefTrueColor(f.bgTrueColor)
        ELSE IF f.hasBgColor THEN <<";", "4", Numerals[f.bgColorCodeOffset + 1]>>
        ELSE <<>>)
    \o <<"m">>

\* The offset of each letter of the palette
RefOffsets ==
    {<<"d", 9>>, <<"k", 0>>, <<"r", 1>>, <<"g", 2>>, <<"y", 3>>, <<"b", 4>>,
     <<"m", 5>>, <<"c", 6>>, <<"w", 7>>}

\* Opening tags with the code of each as the first tag of an input, with
\* and without true colours
SgrExamples ==
    {[tag |-> <<"[", "!", "]">>,
      true |-> <<ESC, "[", "0", ";", "1", "m">>,
      basic |-> <<ESC, "[", "0", ";", "1", "m">>],
     [tag |-> <<"[", " ", "*", "r", " ", "]">>,
      true |-> <<ESC, "[", "0", ";", "9", "1", "m">>,
      basic |-> <<ESC, "[", "0", ";", "9", "1", "m">>],
     [tag |-> <<"[", "g", ":", "b", "]">>,
      true |-> <<ESC, "[", "0", ";", "3", "2", ";", "4", "4", "m">>,
      basic |-> <<ESC, "[", "0", ";", "3", "2", ";", "4", "4", "m">>],
     [tag |-> <<"[", "_", ":", "d", "]">>,
      true |-> <<ESC, "[", "0", ";", "4", ";", "4", "9", "m">>,
      basic |-> <<ESC, "[", "0", ";", "4", ";", "4", "9", "m">>],
     [tag |-> <<"[", "#", "e", "7", "4", "c", "3", "c", "]">>,
      true |-> <<ESC, "[", "0", ";", "3", "8", ";", "2", ";", "2", "3", "1", ";", "7", "6", ";", "6", "0", "m">>,
      basic |-> <<ESC, "[", "0", "m">>],
     [tag |-> <<"[", "y", "#", "e", "7", "4", "c", "3", "c", "]">>,
      true |-> <<ESC, "[", "0", ";", "3", "8", ";", "2", ";", "2", "3", "1", ";", "7", "6", ";", "6", "0", "m">>,
      basic |-> <<ESC, "[", "0", ";", "3", "3", "m">>],
     [tag |-> <<"[", "#", "0", "A", "0", "0", "f", "F", "c", "]">>,
      true |-> <<ESC, "[", "0", ";", "3", "8", ";", "2", ";", "1", "0", ";", "0", ";", "2", "5", "5", "m">>,
      basic |-> <<ESC, "[", "0", ";", "3", "6", "m">>],
     [tag |-> <<"[", ":", "m", ":", "#", "e", "7", "4", "c", "3", "c", "]">>,
      true |-> <<ESC, "[", "0", ";", "4", "8", ";", "2", ";", "2", "3", "1", ";", "7", "6", ";", "6", "0", "m">>,
      basic |-> <<ESC, "[", "0", ";", "4", "5", "m">>],
     [tag |-> <<"[", "k", ":", "w", ":", "y", "]">>,
      true |-> <<ESC, "[", "0", ";", "3", "0", ";", "4", "3", "m">>,
      basic |-> <<ESC, "[", "0", ";", "3", "0", ";", "4", "3", "m">>]}

StartsWith(tag) == Len(input) >= Len(tag) /\ SubSeq(input, 1, Len(tag)) = tag

\* C6: with codes enabled, a step which pushes an opening tag or pops for a
\* closing tag writes exactly one code, the documented encoding of the
\* frame then on top of the stack: ESC [ 0, then ;1 ;2 ;3 ;4 ;7 for bold,
\* dim, italic, underline, reverse, then the foreground (30 or, if bright,
\* 90, plus the offset of the letter; or 38;2;R;G;B), then the background
\* (40 plus the offset, whatever bright; or 48;2;R;G;B), then m.
C6_SgrEncoding ==
    /\ [][(parser.emitSgrCodes /\ (PushesTag \/ PopsTag)) =>
            /\ Written = RefSgr(parser.hasTrueColorSupport, Top)
            /\ parser'.os = parser.os \o Written]_vars
    /\ [](\A x \in SgrExamples :
            (parser.emitSgrCodes /\ StartsWith(x.tag) /\ parser.at = Len(x.tag)
                /\ parser.pc = "scan") =>
            parser.os = IF parser.hasTrueColorSupport THEN x.true ELSE x.basic)
    /\ [](\A x \in RefOffsets :
            /\ tryParseBasicColor(<<x[1]>>, 0).err = NoError
            /\ tryParseBasicColor(<<x[1]>>, 0).offset = x[2])

\* A bright foreground over a basic background was encoded
C6_Witness ==
    /\ parser.emitSgrCodes
    /\ parser.pc = "scan"
    /\ parser.stackLen = 3
    /\ parser.stack[2].hasBright /\ parser.stack[2].hasFgColor
    /\ parser.stack[2].hasBgColor
    /\ Len(parser.events) = 2

----------------------------------------------------------------------------
(* C7 *)

\* The parameters of a code ESC [ p1 ; p2 ; ... m, from its character i on,
\* 'cur' being the characters of the current parameter
RECURSIVE ParamsFrom(_, _, _)
ParamsFrom(code, i, cur) ==
    IF i > Len(code) \/ code[i] = "m" THEN <<cur>>
    ELSE IF code[i] = ";" THEN <<cur>> \o ParamsFrom(code, i + 1, <<>>)
    ELSE ParamsFrom(code, i + 1, Append(cur, code[i]))

Params(code) == ParamsFrom(code, 3, <<>>)

\* What a terminal reads in the parameters from the i-th on: a true colour
\* takes five parameters (38 or 48, 2, and the three components)
RECURSIVE FieldsFrom(_, _)
FieldsFrom(ps, i) ==
    IF i > Len(ps) THEN <<>>
    ELSE IF ps[i] \in {<<"3", "8">>, <<"4", "8">>} /\ i + 4 <= Len(ps) /\ ps[i + 1] = <<"2">>
    THEN <<[kind |-> IF ps[i][1] = "3" THEN "fgTrue" ELSE "bgTrue",
            value |-> <<ps[i + 2], ps[i + 3], ps[i + 4]>>]>> \o FieldsFrom(ps, i + 5)
    ELSE IF Len(ps[i]) = 2 /\ ps[i][1] \in {"3", "9"}
    THEN <<[kind |-> "fgBasic", value |-> <<ps[i]>>]>> \o FieldsFrom(ps, i + 1)
    ELSE IF Len(ps[i]) = 2 /\ ps[i][1] = "4"
    THEN <<[kind |-> "bgBasic", value |-> <<ps[i]>>]>> \o FieldsFrom(ps, i + 1)
    ELSE <<[kind |-> "attribute", value |-> <<ps[i]>>]>> \o FieldsFrom(ps, i + 1)

\* How many fields of a kind the written code carries
CarriesIn(fields, kind) == Cardinality({i \in 1..Len(fields) : fields[i].kind = kind})

WrittenFields == FieldsFrom(Params(Written), 1)

Carries(kind) == CarriesIn(WrittenFields, kind)

OnlyTrueColor(f) ==
    /\ f.hasFgTrueColor \/ f.hasBgTrueColor
    /\ ~f.hasFgColor /\ ~f.hasBgColor
    /\ \A flag \in BoolFlags : ~f[flag]

\* C7: without true-colour support no written code carries a true colour,
\* and the code carries the basic colour of a channel exactly when the
\* frame has one for it; with true-colour support a channel for which the
\* frame has a true colour carries it and no basic colour.  A tag which
\* specifies true colours only is pushed all the same without support.
C7_TrueColorFallback ==
    /\ [][(parser.emitSgrCodes /\ ~parser.hasTrueColorSupport /\ (PushesTag \/ PopsTag)) =>
            \A fields \in {WrittenFields} :
                /\ CarriesIn(fields, "fgTrue") = 0 /\ CarriesIn(fields, "bgTrue") = 0
                /\ CarriesIn(fields, "fgBasic") = (IF Top.hasFgColor THEN 1 ELSE 0)
                /\ CarriesIn(fields, "bgBasic") = (IF Top.hasBgColor THEN 1 ELSE 0)]_vars
    /\ [][(parser.emitSgrCodes /\ parser.hasTrueColorSupport /\ (PushesTag \/ PopsTag)) =>
            \A fields \in {WrittenFields} :
                /\ Top.hasFgTrueColor =>
                     (CarriesIn(fields, "fgTrue") = 1 /\ CarriesIn(fields, "fgBasic") = 0)
                /\ Top.hasBgTrueColor =>
                     (CarriesIn(fields, "bgTrue") = 1 /\ CarriesIn(fields, "bgBasic") = 0)]_vars
    /\ [][(AtOpenTag /\ ~parser.hasTrueColorSupport /\ parser.stackLen < 5
             /\ parseOpenTag(input, parser.at).err = NoError /\ OnlyTrueColor(TagFrame)) =>
            parser'.pc = "scan" /\ parser'.stackLen = parser.stackLen + 1]_vars

\* Without support, a tag with a true-colour foreground only was pushed
\* over a basic foreground, and the code written has the basic one
C7_Witness ==
    /\ parser.emitSgrCodes /\ ~parser.hasTrueColorSupport
    /\ parser.pc = "scan"
    /\ StartsWith(<<"[", "g", ":", "b", "]", "[">> \o Red \o <<"]">>)
    /\ parser.at = 14
    /\ parser.stack[2].hasFgTrueColor
    /\ parser.os = <<ESC, "[", "0", ";", "3", "2", ";", "4", "4", "m",
                     ESC, "[", "0", ";", "3", "2", ";", "4", "4", "m">>

----------------------------------------------------------------------------
(* C8 *)

\* The colour specifiers of the opening tag whose content starts at the
\* i-th character, in order: the channel, the kind and the text of each
RECURSIVE RefSpecs(_, _)
RefSpecs(in, i) ==
    IF i > Len(in) \/ in[i] = "]" THEN <<>>
    ELSE IF in[i] \in {" ", "!", "-", "_", "'", "^", "*"} THEN RefSpecs(in, i + 1)
    ELSE IF in[i] = ":" THEN
        IF i + 1 <= Len(in) /\ in[i + 1] = "#"
        THEN <<[chan |-> "bg", kind |-> "true", text |-> SubSeq(in, i + 2, i + 7)]>>
             \o RefSpecs(in, i + 8)
        ELSE <<[chan |-> "bg", kind |-> "basic", text |-> <<in[i + 1]>>]>>
             \o RefSpecs(in, i + 2)
    ELSE IF in[i] = "#"
    THEN <<[chan |-> "fg", kind |-> "true", text |-> SubSeq(in, i + 1, i + 6)]>>
         \o RefSpecs(in, i + 7)
    ELSE <<[chan |-> "fg", kind |-> "basic", text |-> <<in[i]>>]>> \o RefSpecs(in, i + 1)

TagSpecs == RefSpecs(input, parser.at + 2)

RefHexLower ==
    <<"0", "1", "2", "3", "4", "5", "6", "7", "8", "9", "a", "b", "c", "d", "e", "f">>

RefHexUpper ==
    <<"0", "1", "2", "3", "4", "5", "6", "7", "8", "9", "A", "B", "C", "D", "E", "F">>

RefHexValue(c) ==
    IF \E i \in 1..16 : RefHexLower[i] = c
    THEN (CHOOSE i \in 1..16 : RefHexLower[i] = c) - 1
    ELSE (CHOOSE i \in 1..16 : RefHexUpper[i] = c) - 1

RefOffset(letter) == (CHOOSE x \in RefOffsets : x[1] = letter)[2]

\* The value a colour specifier stands for
RefValue(spec) ==
    IF spec.kind = "basic" THEN RefOffset(spec.text[1])
    ELSE [r |-> 16 * RefHexValue(spec.text[1]) + RefHexValue(spec.text[2]),
          g |-> 16 * RefHexValue(spec.text[3]) + RefHexValue(spec.text[4]),
          b |-> 16 * RefHexValue(spec.text[5]) + RefHexValue(spec.text[6])]

\* Whether a frame has a setting, and the value of the setting
FrameHas(f, chan, kind) ==
    IF chan = "fg" THEN (IF kind = "basic" THEN f.hasFgColor ELSE f.hasFgTrueColor)
    ELSE (IF kind = "basic" THEN f.hasBgColor ELSE f.hasBgTrueColor)

FrameValue(f, chan, kind) ==
    IF chan = "fg" THEN (IF kind = "basic" THEN f.fgColorCodeOffset ELSE f.fgTrueColor)
    ELSE (IF kind = "basic" THEN f.bgColorCodeOffset ELSE f.bgTrueColor)

OtherKind(kind) == IF kind = "basic" THEN "true" ELSE "basic"

MaxOf(S) == CHOOSE i \in S : \A j \in S : j <= i

\* The specifiers of a channel, or of a channel and a kind, among 'specs'
Of(specs, chan) == {i \in 1..Len(specs) : specs[i].chan = chan}

OfKind(specs, chan, kind) == {i \in 1..Len(specs) : specs[i].chan = chan /\ specs[i].kind = kind}

\* The frame 'f' of a tag keeps the last only of the specifiers 'specs'
\* of a channel
KeepsLastOnly(f, last) ==
    /\ FrameHas(f, last.chan, last.kind)
    /\ FrameValue(f, last.chan, last.kind) = RefValue(last)
    /\ ~FrameHas(f, last.chan, OtherKind(last.kind))

LaterSpecOnly(f, specs) ==
    \A chan \in {"fg", "bg"} :
        Cardinality(Of(specs, chan)) >= 2 => KeepsLastOnly(f, specs[MaxOf(Of(specs, chan))])

\* C8 as claimed: of two colour specifiers of a tag for one channel, of the
\* same kind or not, the frame of the tag keeps the later one only.
C8_LaterSpecOnly ==
    [][PushesTag => \A f \in {TagFrame} : \A specs \in {TagSpecs} : LaterSpecOnly(f, specs)]_vars

\* The frame 'f' of a tag has a setting exactly when 'specs' has a
\* specifier for it, with the value of the last one
LastOfKind(f, specs, chan, kind, of) ==
    /\ FrameHas(f, chan, kind) = (of # {})
    /\ of # {} => FrameValue(f, chan, kind) = RefValue(specs[MaxOf(of)])

LastWriteWinsPerKind(f, specs) ==
    \A chan \in {"fg", "bg"} : \A kind \in {"basic", "true"} :
        LastOfKind(f, specs, chan, kind, OfKind(specs, chan, kind))

\* The code of fields 'fields' carries one colour for a channel for which
\* 'specs' has both kinds: the true one with support, else the basic one
OneOfBoth(specs, fields, chan) ==
    (OfKind(specs, chan, "basic") # {} /\ OfKind(specs, chan, "true") # {}) =>
        IF parser.hasTrueColorSupport
        THEN CarriesIn(fields, chan \o "True") = 1 /\ CarriesIn(fields, chan \o "Basic") = 0
        ELSE CarriesIn(fields, chan \o "True") = 0 /\ CarriesIn(fields, chan \o "Basic") = 1

\* C8, amended: the last write wins among the specifiers of the same
\* channel and the same kind only.  The frame of a tag has a setting
\* exactly when the tag has a specifier of that channel and kind, with the
\* value of the last such specifier; a basic and a true colour for one
\* channel are both kept, in either order, and the code written for the
\* tag carries the true colour with true-colour support and the basic one
\* without.
C8_LastWriteWinsPerKind ==
    /\ [][PushesTag =>
            \A f \in {TagFrame} : \A specs \in {TagSpecs} : LastWriteWinsPerKind(f, specs)]_vars
    /\ [][(PushesTag /\ parser.emitSgrCodes) =>
            \A specs \in {TagSpecs} : \A fields \in {WrittenFields} :
                OneOfBoth(specs, fields, "fg") /\ OneOfBoth(specs, fields, "bg")]_vars

\* After [#0A00fFc] with true-colour support: the frame has the later basic
\* colour and the earlier true colour, and the code carries the true colour
C8_Witness ==
    /\ parser.pc = "scan"
    /\ StartsWith(<<"[">> \o Blue \o <<"c", "]">>)
    /\ parser.at = 10
    /\ parser.stack[1].hasFgColor /\ parser.stack[1].fgColorCodeOffset = 6
    /\ parser.stack[1].hasFgTrueColor
    /\ parser.os = <<ESC, "[", "0", ";", "3", "8", ";", "2", ";", "1", "0", ";", "0",
                     ";", "2", "5", "5", "m">>

----------------------------------------------------------------------------
(* C9 *)

\* The pushes and pops of a history, without the codes
Ops(events) == [i \in 1..Len(events) |-> <<events[i].op, events[i].n>>]

\* 'os' without the codes its history says were written
RECURSIVE StripFrom(_, _, _)
StripFrom(os, events, j) ==
    IF j > Len(os) THEN <<>>
    ELSE IF \E i \in 1..Len(events) :
                events[i].pos < j /\ j <= events[i].pos + Len(events[i].sgr)
    THEN StripFrom(os, events, j + 1)
    ELSE <<os[j]>> \o StripFrom(os, events, j + 1)

Strip(os, events) == StripFrom(os, events, 1)

\* The index of the first ']' from the i-th character on
RECURSIVE TagEnd(_, _)
TagEnd(in, i) == IF i >= Len(in) \/ in[i] = "]" THEN i ELSE TagEnd(in, i + 1)

\* The characters of a well-formed input which are neither of a tag nor
\* the backslash of an escape
RECURSIVE PlainFrom(_, _)
PlainFrom(in, i) ==
    IF i > Len(in) THEN <<>>
    ELSE IF in[i] = "\\" THEN <<in[i + 1]>> \o PlainFrom(in, i + 2)
    ELSE IF in[i] = "[" THEN PlainFrom(in, TagEnd(in, i) + 1)
    ELSE <<in[i]>> \o PlainFrom(in, i + 1)

PlainText(in) == PlainFrom(in, 1)

Finished == parser.pc \in {"done", "thrown"}

\* C9: whatever the two flags, the parse of an input ends the same way
\* (returns, or throws the same error at the same place) after the same
\* pushes and pops; when it returns, the output without codes is the plain
\* text of the input, which is also the output with codes once the codes
\* written are taken out of it.
C9_FlagsKeepTheParse ==
    Finished =>
        \A e \in BOOLEAN, t \in BOOLEAN :
            LET q == Run(input, e, t)
            IN  /\ q.pc = parser.pc
                /\ q.error = parser.error
                /\ q.at = parser.at
                /\ q.stackLen = parser.stackLen
                /\ Ops(q.events) = Ops(parser.events)
                /\ parser.pc = "done" =>
                     /\ ~e => q.os = PlainText(input)
                     /\ Strip(q.os, q.events) = PlainText(input)
                     /\ ~e => Strip(parser.os, parser.events) = q.os

C9_Witness ==
    /\ parser.pc = "done"
    /\ parser.emitSgrCodes
    /\ Len(parser.events) >= 2
    /\ Len(PlainText(input)) >= 1
    /\ Len(result) > Len(PlainText(input))

----------------------------------------------------------------------------
(* C10 *)

\* The input has no '[' but after a backslash, and no backslash but before
\* a backslash or a '['
RECURSIVE OnlyEscapesFrom(_, _)
OnlyEscapesFrom(in, i) ==
    IF i > Len(in) THEN TRUE
    ELSE IF in[i] = "\\"
    THEN i + 1 <= Len(in) /\ in[i + 1] \in {"\\", "["} /\ OnlyEscapesFrom(in, i + 2)
    ELSE in[i] # "[" /\ OnlyEscapesFrom(in, i + 1)

OnlyEscapes(in) == OnlyEscapesFrom(in, 1)

\* Such an input with every \[ replaced by [ and every \\ by \
RECURSIVE UnescapedFrom(_, _)
UnescapedFrom(in, i) ==
    IF i > Len(in) THEN <<>>
    ELSE IF in[i] = "\\" /\ in[i + 1] = "[" THEN <<"[">> \o UnescapedFrom(in, i + 2)
    ELSE IF in[i] = "\\" /\ in[i + 1] = "\\" THEN <<"\\">> \o UnescapedFrom(in, i + 2)
    ELSE <<in[i]>> \o UnescapedFrom(in, i + 1)

Unescaped(in) == UnescapedFrom(in, 1)

\* The step changes nothing of the stack
SameStack == parser'.stackLen = parser.stackLen /\ parser'.stack = parser.stack

\* C10: at a backslash the scan fails with "Incomplete escape sequence at
\* end of string" when it is the last character, writes the next character
\* alone and passes both when that is a backslash or a '[', and fails with
\* "Invalid escape sequence" otherwise; any other character but '[' is
\* written as it is.  So an input with no markup but \[ and \\ converts
\* without codes to itself with [ for each \[ and \ for each \\.
C10_Escapes ==
    /\ [][(Scanning /\ input[parser.at + 1] = "\\") =>
            IF parser.at + 2 > Len(input)
            THEN Failure("Incomplete escape sequence at end of string")
                 /\ parser'.os = parser.os
            ELSE IF input[parser.at + 2] \in {"\\", "["}
            THEN /\ parser'.pc = "scan"
                 /\ parser'.os = Append(parser.os, input[parser.at + 2])
                 /\ parser'.at = parser.at + 2
                 /\ SameStack
            ELSE Failure("Invalid escape sequence") /\ parser'.os = parser.os]_vars
    /\ [][(Scanning /\ input[parser.at + 1] \notin {"\\", "["}) =>
            /\ parser'.pc = "scan"
            /\ parser'.os = Append(parser.os, input[parser.at + 1])
            /\ parser'.at = parser.at + 1
            /\ SameStack]_vars
    /\ [](OnlyEscapes(input) =>
            /\ parser.pc # "thrown"
            /\ (parser.pc = "done" /\ ~parser.emitSgrCodes) => result = Unescaped(input))

C10_Witness ==
    /\ parser.pc = "done"
    /\ ~parser.emitSgrCodes
    /\ input = <<"\\", "[", "\\", "\\">>
    /\ result = <<"[", "\\">>

----------------------------------------------------------------------------
(* C11 *)

\* C11: a call of mint() which throws gives its caller no string, whatever
\* was written to the string of the Parser before the error; a caller which
\* has a string has the whole output of a parse which reached the end of
\* the input.
C11_ErrorOrFullOutput ==
    /\ parser.pc = "thrown" => result = NoResult
    /\ parser.pc = "done" => result = parser.os
    /\ result # NoResult =>
        /\ parser.pc = "done"
        /\ parser.at = Len(input)
        /\ result = Run(input, parser.emitSgrCodes, parser.hasTrueColorSupport).os

\* The parse failed after it wrote a code and a literal character
C11_Witness ==
    /\ parser.pc = "thrown"
    /\ parser.emitSgrCodes
    /\ Len(parser.events) >= 1
    /\ Len(Strip(parser.os, parser.events)) >= 1
    /\ result = NoResult

----------------------------------------------------------------------------
(* C12 *)

EscCount(code) == Cardinality({i \in 1..Len(code) : code[i] = ESC})

LastEvent == parser'.events[Len(parser'.events)]

\* C12: a closing tag of k slashes at depth d > k pops k frames in one
\* step, recorded as one pop of k levels, and writes one code when codes
\* are emitted, the code of the frame which was k levels under the top
\* (ESC[0m when that is the default frame), and nothing otherwise.
C12_MultiLevelClose ==
    [][\A k \in 1..Len(input) : (AtCloseTag(k) /\ k < parser.stackLen) =>
        /\ parser'.pc = "scan"
        /\ parser'.stackLen = parser.stackLen - k
        /\ Len(parser'.events) = Len(parser.events) + 1
        /\ LastEvent.op = "pop" /\ LastEvent.n = k
        /\ parser'.os = parser.os \o Written
        /\ IF parser.emitSgrCodes
           THEN /\ EscCount(Written) = 1
                /\ Written = RefSgr(parser.hasTrueColorSupport,
                                    parser.stack[parser.stackLen - k - 1])
                /\ parser.stackLen - k = 1 => Written = <<ESC, "[", "0", "m">>
           ELSE Written = <<>>]_vars

\* After [!][!][!][///]: three codes for the pushes and ESC[0m for the pops
C12_Witness ==
    /\ parser.pc = "scan"
    /\ parser.emitSgrCodes
    /\ StartsWith(<<"[", "!", "]", "[", "!", "]", "[", "!", "]", "[", "/", "/", "/", "]">>)
    /\ parser.at = 14
    /\ parser.stackLen = 1
    /\ Len(parser.events) = 4
    /\ parser.os = <<ESC, "[", "0", ";", "1", "m", ESC, "[", "0", ";", "1", "m",
                     ESC, "[", "0", ";", "1", "m", ESC, "[", "0", "m">>

----------------------------------------------------------------------------
(* C13 *)

\* The caller made the calls of the functions 'fns', in this order
Called(fns) == Len(calls) = Len(fns) /\ \A i \in 1..Len(fns) : calls[i].fn = fns[i]

\* C13: mint(escape(s)) returns s for every text s and every 'when': the
\* parse of escape(s) ends at the end of the input at depth 1 with no push
\* and no pop, whatever the two flags of the Parser.
C13_EscapeRoundTrip ==
    Called(<<"escape", "mint">>) =>
        /\ calls[1].arg = text
        /\ input = calls[1].ret
        /\ parser.pc = "done"
        /\ parser.stackLen = 1
        /\ Len(parser.events) = 0
        /\ result = text
        /\ \A e \in BOOLEAN, t \in BOOLEAN :
            /\ Run(escape(text), e, t).pc = "done"
            /\ Run(escape(text), e, t).os = text
            /\ Run(escape(text), e, t).events = <<>>

\* A text with a backslash, a '[', a ']' and a '/' came back with codes on
C13_Witness ==
    /\ Called(<<"escape", "mint">>)
    /\ text = <<"\\", "[", "/", "]">>
    /\ calls[1].ret = <<"\\", "\\", "\\", "[", "/", "]">>
    /\ parser.emitSgrCodes
    /\ result = text

----------------------------------------------------------------------------
(* C14 *)

\* The input of mint() parsed, and escapeAnsi() was given what mint()
\* returned
Stripped == Called(<<"mint", "escapeAnsi">>)

StrippedText == calls[2].ret

\* C14 as claimed: for every input which parses, with an escape character
\* in its literal text or not, escapeAnsi() gives the same string for the
\* outputs of all modes.
C14_StripAgrees ==
    Stripped =>
        \A e \in BOOLEAN, t \in BOOLEAN : escapeAnsi(Run(input, e, t).os) = StrippedText

\* C14, amended: escapeAnsi() gives the same string for the outputs of all
\* modes when the input of mint() has no escape character.
C14_StripAgreesWithoutEsc ==
    (Stripped /\ ~InSeq(input, ESC)) =>
        \A e \in BOOLEAN, t \in BOOLEAN : escapeAnsi(Run(input, e, t).os) = StrippedText

\* The output with codes of \[m[!]m[/]m, an input without escape character
\* whose text has '[' and 'm', was stripped
C14_Witness ==
    /\ Stripped
    /\ parser.emitSgrCodes
    /\ input = <<"\\", "[", "m", "[", "!", "]", "[", "/", "]">>
    /\ result = <<"[", "m", ESC, "[", "0", ";", "1", "m", ESC, "[", "0", "m">>
    /\ StrippedText = <<"[", "m">>

----------------------------------------------------------------------------
(* C15 *)

\* C15 as claimed: escapeAnsi(mint(x, When::Always)) is mint(x, When::Never)
\* for every input which parses.
C15_StripIsPlain ==
    (Stripped /\ when = "Always") => StrippedText = Run(input, FALSE, FALSE).os

\* C15, amended: escapeAnsi(mint(x, When::Always)) is mint(x, When::Never),
\* the plain text of x, when x has no escape character.
C15_StripIsPlainWithoutEsc ==
    (Stripped /\ when = "Always" /\ ~InSeq(input, ESC)) =>
        /\ StrippedText = Run(input, FALSE, FALSE).os
        /\ StrippedText = PlainText(input)

C15_Witness ==
    /\ Stripped
    /\ when = "Always"
    /\ input = <<"[", "!", "]", "m", "\\", "[", "[", "/", "]">>
    /\ StrippedText = <<"m", "[">>

----------------------------------------------------------------------------
(* C16 *)

\* An escape code starts at the i-th character of 's': ESC, '[', and an 'm'
\* somewhere after
CodeAt(s, i) ==
    /\ i + 1 <= Len(s)
    /\ s[i] = ESC
    /\ s[i + 1] = "["
    /\ \E j \in (i + 2)..Len(s) : s[j] = "m"

HasCode(s) == \E i \in 1..Len(s) : CodeAt(s, i)

Least(S) == CHOOSE i \in S : \A j \in S : i <= j

\* 's' without its escape codes, read from the left: up to the first code,
\* then what follows the first 'm' of that code, without its codes
RECURSIVE RefStrip(_)
RefStripAfter(s, i) ==
    SubSeq(s, 1, i - 1)
    \o RefStrip(SubSeq(s, Least({j \in (i + 2)..Len(s) : s[j] = "m"}) + 1, Len(s)))

RefStrip(s) ==
    IF HasCode(s) THEN RefStripAfter(s, Least({i \in 1..Len(s) : CodeAt(s, i)})) ELSE s

\* escapeAnsi() was called alone on 'text'
StrippedAlone == Called(<<"escapeAnsi">>)

----------------------------------------------------------------------------
(* C17 *)

\* Every code the parse wrote so far is an escape code, or every one is
\* empty
WroteCodes == \A i \in 1..Len(parser.events) : Len(parser.events[i].sgr) > 0

WroteNoCode == \A i \in 1..Len(parser.events) : Len(parser.events[i].sgr) = 0

\* C17: with When::Always the Parser emits codes and true colours, with
\* When::Never neither, and what mint() returns is the plain text of the
\* input; with When::Auto it emits codes exactly when terminalSupport()
\* is not None and true colours exactly when it is TrueColor.  True
\* colours are never emitted without codes.
C17_WhenSelectsFlags ==
    /\ when = "Always" => (parser.emitSgrCodes /\ parser.hasTrueColorSupport /\ WroteCodes)
    /\ when = "Never" =>
        /\ ~parser.emitSgrCodes /\ ~parser.hasTrueColorSupport
        /\ WroteNoCode
        /\ parser.pc = "done" => result = PlainText(input)
    /\ when = "Auto" =>
        /\ parser.emitSgrCodes = (support # "None")
        /\ parser.hasTrueColorSupport = (support = "TrueColor")
        /\ IF support = "None" THEN WroteNoCode ELSE WroteCodes
    /\ parser.hasTrueColorSupport => parser.emitSgrCodes

\* With When::Auto and a terminal of basic colours, codes were written
C17_Witness ==
    /\ when = "Auto"
    /\ support = "BasicColor"
    /\ parser.pc = "done"
    /\ parser.emitSgrCodes /\ ~parser.hasTrueColorSupport
    /\ Len(parser.events) >= 2
    /\ WroteCodes

----------------------------------------------------------------------------
(* C18 *)

\* The probe ended
Probed == initFlag = "done"

\* The probe met a TERM which is set, not empty and not "dumb"
TermNamed == probed.TERM \notin {NotRead, NullPtr, <<>>, <<"d", "u", "m", "b">>}

TermEndsWithDirect ==
    /\ Len(probed.TERM) >= 7
    /\ SubSeq(probed.TERM, Len(probed.TERM) - 6, Len(probed.TERM)) = <<"-", "d", "i", "r", "e", "c", "t">>

\* The probe met one of the signs of true colours
TrueColorSigns ==
    \/ probed.COLORTERM \in {<<"t", "r", "u", "e", "c", "o", "l", "o", "r">>, <<"2", "4", "b", "i", "t">>, <<"y", "e", "s">>}
    \/ TermEndsWithDirect
    \/ probed.TERM \in {<<"a", "l", "a", "c", "r", "i", "t", "t", "y">>, <<"x", "t", "e", "r", "m", "-", "k", "i", "t", "t", "y">>, <<"w", "e", "z", "t", "e", "r", "m">>,
                         <<"f", "o", "o", "t">>, <<"g", "h", "o", "s", "t", "t", "y">>}

LevelOfSigns == IF TrueColorSigns THEN "TrueColor" ELSE "BasicColor"

\* C18 as claimed: the level is not None only if standard output is a
\* terminal and a character device and TERM is set, not empty and not
\* "dumb", and is then TrueColor exactly with one of the signs of true
\* colours, BasicColor otherwise.
C18_LevelOfCharacterDevice ==
    Probed =>
        /\ staticSupport # "None" => (probed.isatty /\ probed.isChr /\ TermNamed)
        /\ (probed.isatty /\ probed.isChr /\ TermNamed) => staticSupport = LevelOfSigns

\* C18, amended: the level is not None exactly when isatty() answered
\* true, fstat() failed or answered a character device, and TERM is set,
\* not empty and not "dumb"; it is then TrueColor exactly with one of the
\* signs of true colours, BasicColor otherwise.
C18_LevelUnlessStatSaysNo ==
    Probed =>
        IF probed.isatty /\ (probed.fstatOk => probed.isChr) /\ TermNamed
        THEN staticSupport = LevelOfSigns
        ELSE staticSupport = "None"

\* fstat() failed on a standard output which is not a character device,
\* and the level is that of TERM
C18_Witness ==
    /\ Probed
    /\ probed.isatty
    /\ ~probed.fstatOk /\ ~probed.isChr
    /\ probed.TERM = <<"x", "t", "e", "r", "m", "-", "d", "i", "r", "e", "c", "t">>
    /\ probed.COLORTERM = NullPtr
    /\ staticSupport = "TrueColor"

----------------------------------------------------------------------------
(* C19 *)

\* C19: the body of the probe is entered at most once, and once when a
\* call is past call_once(); a thread is past call_once() only when the
\* probe ended; what the probe stored never changes, whatever becomes of
\* the environment, and is what every call returned.
C19_ProbedOnce ==
    /\ [](probeRuns <= 1)
    /\ [](Probed => probeRuns = 1)
    /\ [](\A t \in DOMAIN threads :
            (threads[t].pc = "restore" \/ threads[t].returned > 0) =>
                /\ Probed
                /\ threads[t].returned > 0 => threads[t].ret = staticSupport)
    /\ [][Probed => (initFlag' = initFlag /\ staticSupport' = staticSupport
                      /\ probed' = probed /\ probeRuns' = probeRuns)]_vars
    /\ [][\A t \in DOMAIN threads :
            threads'[t].returned # threads[t].returned =>
                (Probed /\ threads'[t].ret = staticSupport)]_vars

\* Two threads got TrueColor from one probe, the second after standard
\* output stopped being a terminal
C19_Witness ==
    /\ Probed
    /\ probeRuns = 1
    /\ changes = 1
    /\ ~environment.isatty
    /\ probed.isatty
    /\ Len(threads) >= 2
    /\ threads[1].returned >= 1 /\ threads[1].ret = "TrueColor"
    /\ threads[2].returned >= 1 /\ threads[2].ret = "TrueColor"
    /\ threads[2].pc = "idle"

----------------------------------------------------------------------------
(* C20 *)

\* C20: when a call of terminalSupport() returns, errno of the thread is
\* what it was when the thread entered the call.
C20_ErrnoKept ==
    /\ [][\A t \in DOMAIN threads :
            (threads[t].pc = "restore" /\ threads'[t].pc = "idle") =>
                threads'[t].errno = threads[t].entryErrno]_vars
    /\ [](\A t \in DOMAIN threads :
            (threads[t].pc = "idle" /\ threads[t].returned > 0) =>
                threads[t].errno = threads[t].entryErrno)

\* The only call so far ran the probe, whose fstat() failed, and returned
\* with the errno it was entered with
C20_Witness ==
    /\ Len(threads) = 1
    /\ threads[1].pc = "idle"
    /\ threads[1].returned = 1
    /\ probeRuns = 1
    /\ Probed
    /\ probed.isatty /\ ~probed.fstatOk
    /\ threads[1].entryErrno = "42"
    /\ threads[1].errno = "42"

----------------------------------------------------------------------------
(* C21 *)

RefFlags == {"!", "-", "_", "'", "^", "*"}

RefPalette == {"d", "k", "r", "g", "y", "b", "m", "c", "w"}

RefHexDigits == {RefHexLower[i] : i \in 1..16} \cup {RefHexUpper[i] : i \in 1..16}

\* Six hex digits follow the first i characters of 'in'
SixHexAfter(in, i) == i + 6 <= Len(in) /\ \A k \in 1..6 : in[i + k] \in RefHexDigits

\* The length of the colour (a palette letter, or '#' and six hex digits)
\* that follows the first i characters of 'in'; 0 when there is none
ColourLen(in, i) ==
    IF i >= Len(in) THEN 0
    ELSE IF in[i + 1] \in RefPalette THEN 1
    ELSE IF in[i + 1] = "#" /\ SixHexAfter(in, i + 1) THEN 7
    ELSE 0

\* The length of the specifier that follows the first i characters of 'in'
\* (i < Len(in)); 0 when there is none
SpecifierLen(in, i) ==
    IF in[i + 1] \in RefFlags THEN 1
    ELSE IF in[i + 1] = ":"
    THEN (IF ColourLen(in, i + 1) > 0 THEN 1 + ColourLen(in, i + 1) ELSE 0)
    ELSE ColourLen(in, i)

\* How far spaces and specifiers go after the first i characters of 'in':
\* up to a ']', to the end of 'in', or to what is neither
RECURSIVE BodyStop(_, _)
BodyStop(in, i) ==
    IF i >= Len(in) \/ in[i + 1] = "]" THEN i
    ELSE IF in[i + 1] = " " THEN BodyStop(in, i + 1)
    ELSE IF SpecifierLen(in, i) = 0 THEN i
    ELSE BodyStop(in, i + SpecifierLen(in, i))

\* At least one specifier between the offsets 'from' and 'stop'
HasSpecifier(in, from, stop) == \E k \in (from + 1)..stop : in[k] # " "

\* The tag of this step is accepted: the scan goes on, or the frame of the
\* tag has no room on the stack
TagAccepted == parser'.pc = "scan" \/ Failure("Maximum nesting depth exceeded")

\* The offset of the '#' that starts the true colour at offset 'stop', or
\* -1 when a true colour does not start there
HexStart(in, stop) ==
    IF stop >= Len(in) THEN -1
    ELSE IF in[stop + 1] = "#" THEN stop
    ELSE IF in[stop + 1] = ":" /\ stop + 1 < Len(in) /\ in[stop + 2] = "#" THEN stop + 1
    ELSE -1

\* The offset of the character read as a colour letter at offset 'stop',
\* or -1 when 'stop' is not at an unknown colour letter
UnknownLetterAt(in, stop) ==
    IF stop >= Len(in) \/ in[stop + 1] = "]" \/ HexStart(in, stop) >= 0 THEN -1
    ELSE IF in[stop + 1] # ":" THEN stop
    ELSE IF stop + 1 < Len(in) THEN stop + 1
    ELSE -1

\* The input ends right after the ':' at offset 'stop'
LoneColon(in, stop) == stop + 1 = Len(in) /\ in[stop + 1] = ":"

\* Fewer than six characters, all hex digits, follow the '#' of the true
\* colour at offset 'stop', and then the input ends
ShortHex(in, stop) ==
    /\ HexStart(in, stop) >= 0
    /\ Len(in) - (HexStart(in, stop) + 1) < 6
    /\ \A k \in (HexStart(in, stop) + 2)..Len(in) : in[k] \in RefHexDigits

\* The claim as stated, for the end of the input: an opening tag whose body
\* is spaces and specifiers up to the end of the input, the last specifier
\* cut short or not, fails with "Expecting ']' to terminate the opening
\* tag".
C21_EndOfInputBeforeBracket ==
    [][AtOpenTag =>
        \A stop \in {BodyStop(input, parser.at + 1)} :
            (stop = Len(input) \/ LoneColon(input, stop) \/ ShortHex(input, stop)) =>
                Failure("Expecting ']' to terminate the opening tag")]_vars

\* C21: a '[' not followed by '/' starts an opening tag, accepted exactly
\* when what follows, up to the first ']', is spaces and valid specifiers,
\* at least one specifier.  With no specifier before the ']' it fails with
\* "Empty opening tag", whatever the top of the stack; a character that is
\* not a specifier, read as a colour letter, gives "Unknown color letter";
\* the end of the input gives "Expecting ']' to terminate the opening tag"
\* between specifiers, "Expecting color letter" right after a ':' and
\* "Expecting six hex digits for true color" less than six characters
\* after a '#'.
C21_OpenTagGrammar ==
    [][AtOpenTag =>
        \A from \in {parser.at + 1} : \A stop \in {BodyStop(input, parser.at + 1)} :
            /\ TagAccepted <=>
                /\ stop < Len(input) /\ input[stop + 1] = "]"
                /\ HasSpecifier(input, from, stop)
            /\ (/\ stop < Len(input) /\ input[stop + 1] = "]"
                /\ ~HasSpecifier(input, from, stop)) =>
                    Failure("Empty opening tag")
            /\ stop = Len(input) =>
                    Failure("Expecting ']' to terminate the opening tag")
            /\ UnknownLetterAt(input, stop) >= 0 =>
                    /\ parser'.pc = "thrown"
                    /\ parser'.error =
                        <<"Unknown color letter '",
                          input[UnknownLetterAt(input, stop) + 1], "'">>
            /\ LoneColon(input, stop) => Failure("Expecting color letter")
            /\ ShortHex(input, stop) =>
                    Failure("Expecting six hex digits for true color")]_vars

\* An empty tag inside a bold tag failed as an empty tag
C21_Witness ==
    /\ input = <<"[", "!", "]", "[", " ", "]">>
    /\ parser.pc = "thrown"
    /\ parser.error = <<"Empty opening tag">>
    /\ parser.stackLen = 2
    /\ parser.stack[1].hasBold

----------------------------------------------------------------------------
(* C22 *)

\* The number of '/' that follow the '[' at _at (at least one does)
SlashesAfter(in, at) ==
    CHOOSE k \in 1..Len(in) :
        /\ at + 1 + k <= Len(in)
        /\ \A i \in 1..k : in[at + 1 + i] = "/"
        /\ (at + 1 + k = Len(in) \/ in[at + k + 2] # "/")

\* C22: a '[' followed by '/' starts a closing tag: '[', one or more '/',
\* then ']'.  When the run of '/' is followed by another character or by
\* the end of the input the parse fails with "Expecting ']' after '[/'",
\* whatever the depth and the number of '/'; a closing tag with its ']'
\* fails only as unbalanced, and otherwise the scan goes on after the ']'.
\* A '[' that is the last character of the input fails as an opening tag
\* without its ']'.
C22_CloseTagGrammar ==
    [][(Scanning /\ input[parser.at + 1] = "[") =>
        IF parser.at + 2 <= Len(input) /\ input[parser.at + 2] = "/"
        THEN \A k \in {SlashesAfter(input, parser.at)} :
                IF parser.at + 1 + k = Len(input) \/ input[parser.at + k + 2] # "]"
                THEN Failure("Expecting ']' after '[/'")
                ELSE IF parser.stackLen <= k
                THEN Failure("Unbalanced closing tag")
                ELSE /\ parser'.pc = "scan"
                     /\ parser'.at = parser.at + k + 2
                     /\ parser'.stackLen = parser.stackLen - k
        ELSE parser.at + 1 = Len(input) =>
                Failure("Expecting ']' to terminate the opening tag")]_vars

\* A closing tag of two '/' without its ']', at depth 1, failed for the ']'
C22_Witness ==
    /\ input = <<"[", "/", "/">>
    /\ parser.pc = "thrown"
    /\ parser.error = <<"Expecting ']' after '[/'">>
    /\ parser.stackLen = 1

----------------------------------------------------------------------------
(* C23 *)

\* The colour that the six hex digits after the j-th character stand for
RefRgb(in, j) ==
    [r |-> 16 * RefHexValue(in[j + 1]) + RefHexValue(in[j + 2]),
     g |-> 16 * RefHexValue(in[j + 3]) + RefHexValue(in[j + 4]),
     b |-> 16 * RefHexValue(in[j + 5]) + RefHexValue(in[j + 6])]

\* The j-th character is the last '#' of its channel (the background when
\* a ':' precedes it) before the offset 'stop'
LastHexOfChannel(in, j, stop) ==
    /\ in[j] = "#"
    /\ \A k \in (j + 1)..stop : in[k] = "#" => (in[k - 1] = ":") # (in[j - 1] = ":")

\* C23: after '#' the next six characters are consumed and must be hex
\* digits, in either case: the components are 16 * first digit + second
\* digit, in 0..255, red then green then blue, and they are what the frame
\* of an accepted tag has for the channel.  With less than six characters
\* left the parse fails with "Expecting six hex digits for true color",
\* with a character among the six that is not a hex digit with "Invalid hex
\* digit", and the cursor is then still right after the '#'.
C23_TrueColorParsing ==
    [][AtOpenTag =>
        \A stop \in {BodyStop(input, parser.at + 1)} :
            /\ \A j \in (parser.at + 2)..Len(input) : \A h \in {tryParseHexColor(input, j)} :
                input[j] = "#" =>
                    IF Len(input) - j < 6
                    THEN /\ h.err = <<"Expecting six hex digits for true color">>
                         /\ h.at = j
                    ELSE IF \E k \in 1..6 : input[j + k] \notin RefHexDigits
                    THEN h.err = <<"Invalid hex digit">> /\ h.at = j
                    ELSE /\ h.err = NoError
                         /\ h.at = j + 6
                         /\ h.color = RefRgb(input, j)
                         /\ {h.color.r, h.color.g, h.color.b} \subseteq 0..255
            /\ HexStart(input, stop) >= 0 =>
                \A j \in {HexStart(input, stop) + 1} :
                    /\ parseOpenTag(input, parser.at).at = j
                    /\ IF Len(input) - j < 6
                       THEN Failure("Expecting six hex digits for true color")
                       ELSE Failure("Invalid hex digit")
            /\ parser'.pc = "scan" =>
                \A j \in (parser.at + 2)..stop :
                    LastHexOfChannel(input, j, stop) =>
                        IF input[j - 1] = ":"
                        THEN /\ Pushed.hasBgTrueColor
                             /\ Pushed.bgTrueColor = RefRgb(input, j)
                        ELSE /\ Pushed.hasFgTrueColor
                             /\ Pushed.fgTrueColor = RefRgb(input, j)]_vars

\* The tag of a true colour in both cases of the hex digits was pushed
\* with its three components
C23_Witness ==
    /\ input = <<"[", "#", "e", "7", "4", "0", "f", "F", "]">>
    /\ parser.pc = "scan"
    /\ parser.at = 9
    /\ parser.stackLen = 2
    /\ parser.stack[1].hasFgTrueColor
    /\ parser.stack[1].fgTrueColor = [r |-> 231, g |-> 64, b |-> 255]

----------------------------------------------------------------------------
(* C24 *)

\* 'in' from its (i + 1)-th character, without the characters of W that
\* stand before, between or after the specifiers of the tag
RECURSIVE SqueezeFrom(_, _, _)
SqueezeFrom(in, i, W) ==
    IF i >= Len(in) \/ in[i + 1] = "]" THEN SubSeq(in, i + 1, Len(in))
    ELSE IF in[i + 1] \in W THEN SqueezeFrom(in, i + 1, W)
    ELSE IF SpecifierLen(in, i) = 0 THEN SubSeq(in, i + 1, Len(in))
    ELSE SubSeq(in, i + 1, i + SpecifierLen(in, i))
            \o SqueezeFrom(in, i + SpecifierLen(in, i), W)

\* The input whose opening tag at _at has no character of W around its
\* specifiers
Squeezed(W) == SubSeq(input, 1, parser.at + 1) \o SqueezeFrom(input, parser.at + 1, W)

\* The characters of W around the specifiers of the opening tag at _at
\* change neither whether the tag is accepted nor its frame
IgnoredInTag(W) ==
    \A t \in {parseOpenTag(Squeezed(W), parser.at)} :
        /\ TagAccepted <=> t.err = NoError
        /\ TagAccepted => TagFrame = t.frame

\* The claim as stated, for the whitespace characters: spaces and tabs
\* around the specifiers of an opening tag change neither whether the tag is
\* accepted nor its frame.
C24_WhitespaceIgnored == [][AtOpenTag => IgnoredInTag({" ", TAB})]_vars

\* C24: the spaces before, between and after the specifiers of an opening
\* tag change neither whether the tag is accepted nor the frame it sets: the
\* tag is parsed as the tag without them.
C24_SpacesIgnored == [][AtOpenTag => IgnoredInTag({" "})]_vars

\* A bold tag with a space on each side of the '!' was pushed
C24_Witness ==
    /\ input = <<"[", " ", "!", " ", "]">>
    /\ parser.pc = "scan"
    /\ parser.at = 5
    /\ parser.stackLen = 2
    /\ parser.stack[1].hasBold
    /\ ~parser.stack[1].hasFgColor

----------------------------------------------------------------------------
(* C25 *)

\* C25: the scan terminates.  An iteration of the loop of _parse() either
\* moves the cursor forward by at least one character or fails; no step
\* moves the cursor backwards or past the end of the input, so that the
\* characters left to scan are fewer after each iteration; and the parse,
\* which runs to its next step as long as it has one, ends with a returned
\* string or with an error.
C25_ScanTerminates ==
    /\ [][Scanning => (parser'.pc = "thrown" \/
                        (parser'.pc = "scan" /\ parser'.at > parser.at))]_vars
    /\ [][/\ parser'.at >= parser.at
          /\ Len(input') - parser'.at >= 0
          /\ Len(input') - parser'.at <= Len(input) - parser.at]_vars
    /\ <>Finished
    /\ [](Finished => (parser.pc = "done") = (result # NoResult))

\* The parse of a tag and its closing tag ended after two iterations, at
\* the end of the input
C25_Witness ==
    /\ input = <<"[", "!", "]", "[", "/", "]">>
    /\ parser.pc = "done"
    /\ parser.at = 6
    /\ Len(parser.events) = 2
    /\ result = str(parser)

----------------------------------------------------------------------------
(* C26 *)

\* C26: the parser reads no character outside the range it was given.  The
\* cursor stays between the beginning and the end of the input, also when
\* the parse has failed, and every character an iteration reads is before
\* the end, whether the input ends in an escape, in a tag or in the six
\* hex digits of a colour.
C26_ReadsInRange ==
    /\ parser.at \in 0..Len(input)
    /\ Scanning => StepReads(input, parser) \subseteq 0..(Len(input) - 1)

\* The input ended three characters after the '#' of a background colour,
\* and the parse failed without reading the six characters
C26_Witness ==
    /\ input = <<"[", ":", "#", "e", "7", "4">>
    /\ parser.pc = "thrown"
    /\ parser.error = <<"Expecting six hex digits for true color">>
    /\ parser.at = 3
    /\ HexReads(input, 3) = {}

----------------------------------------------------------------------------
(* C27 *)

\* The code written by the opening tag which created the level d of the
\* stack: the last push to depth d
CodeOfLevel(events, d) ==
    events[MaxOf({i \in 1..Len(events) :
                    events[i].op = "push" /\ events[i].depth = d})].sgr

\* The smaller of two numbers
MinOf(a, b) == IF a <= b THEN a ELSE b

\* C27: a closing tag restores exactly the outer style.  No step changes a
\* frame which is on the stack before and after it; a closing tag which
\* leaves the depth d > 1 writes, byte for byte, the code the opening tag
\* which created the level d wrote, and ESC[0m when d = 1 (nothing when
\* codes are not emitted).
C27_CloseRestoresOuter ==
    /\ [][\A i \in 0..(MinOf(parser.stackLen, parser'.stackLen) - 1) :
            parser'.stack[i] = parser.stack[i]]_vars
    /\ [][\A k \in 1..Len(input) : (AtCloseTag(k) /\ k < parser.stackLen) =>
            \A d \in {parser.stackLen - k} :
                /\ parser'.stackLen = d
                /\ parser'.os = parser.os \o Written
                /\ IF d > 1 THEN Written = CodeOfLevel(parser.events, d)
                   ELSE IF parser.emitSgrCodes THEN Written = <<ESC, "[", "0", "m">>
                   ELSE Written = <<>>]_vars

\* After [g:b][#e74c3c][/]: the closing tag wrote again the code of the
\* first tag
C27_Witness ==
    /\ StartsWith(<<"[", "g", ":", "b", "]", "[">> \o Red \o <<"]", "[", "/", "]">>)
    /\ parser.pc = "scan"
    /\ parser.emitSgrCodes /\ parser.hasTrueColorSupport
    /\ parser.at = 17
    /\ parser.stackLen = 2
    /\ Len(parser.events) = 3
    /\ parser.events[3].op = "pop"
    /\ parser.events[3].sgr = parser.events[1].sgr
    /\ parser.events[3].sgr # parser.events[2].sgr
    /\ parser.events[3].sgr = <<ESC, "[", "0", ";", "3", "2", ";", "4", "4", "m">>

====
